---------------------------- MODULE Spec2Model ----------------------------
(***************************************************************************)
(* Model of the Deadlock-Transcriptions post-processing scripts:           *)
(*   src/autoFixWhisperErrors.py    the rule-based text corrector          *)
(*   src/fixHallucinatedScreams.py  the hallucination classifier           *)
(* A text is a sequence of characters, a character a one-character string. *)
(* The regular expressions of the scripts are kept as syntax trees and     *)
(* matched by a backtracking matcher with the priorities of Python's re.   *)
(***************************************************************************)
EXTENDS Integers, Sequences, FiniteSets, TLC

VARIABLES
    disk,        \* file name -> content of the file
    orig,        \* the disk before the first invocation
    history,     \* the invocations so far: <<script, dry_run>>, latest last
    pc,          \* "idle", "running", "done" (process_directory returned) or
                 \* "crashed" (an exception left main)
    todo,        \* the files process_directory has still to visit
    all_changes, \* process_directory's change log
    classified,  \* the calls of is_hallucinated made by the invocation
    writes,      \* the files the invocation has written
    text,        \* the input of the specifications of single functions
    result       \* their output

vars == <<disk, orig, history, pc, todo, all_changes, classified, writes, text, result>>

---------------------------------------------------------------------------
(* Characters *)

\* The characters of the model: printable ASCII, the ASCII white space, and the
\* other characters that occur in the scripts' tables, with their case variants.
\* A character outside printable ASCII, and the grave accent, is spelled by its
\* code point: "U+00E2" is the one character U+00E2.
\* ord() of every character of the model.
ORD ==
       ("\t" :> 9) @@ ("\n" :> 10) @@ ("\f" :> 12) @@ ("\r" :> 13) @@ (" " :> 32) @@ ("!" :> 33) @@ ("\"" :> 34) @@ ("#" :> 35) @@
       ("$" :> 36) @@ ("%" :> 37) @@ ("&" :> 38) @@ ("'" :> 39) @@ ("(" :> 40) @@ (")" :> 41) @@ ("*" :> 42) @@ ("+" :> 43) @@
       ("," :> 44) @@ ("-" :> 45) @@ ("." :> 46) @@ ("/" :> 47) @@ ("0" :> 48) @@ ("1" :> 49) @@ ("2" :> 50) @@ ("3" :> 51) @@
       ("4" :> 52) @@ ("5" :> 53) @@ ("6" :> 54) @@ ("7" :> 55) @@ ("8" :> 56) @@ ("9" :> 57) @@ (":" :> 58) @@ (";" :> 59) @@
       ("<" :> 60) @@ ("=" :> 61) @@ (">" :> 62) @@ ("?" :> 63) @@ ("@" :> 64) @@ ("A" :> 65) @@ ("B" :> 66) @@ ("C" :> 67) @@
       ("D" :> 68) @@ ("E" :> 69) @@ ("F" :> 70) @@ ("G" :> 71) @@ ("H" :> 72) @@ ("I" :> 73) @@ ("J" :> 74) @@ ("K" :> 75) @@
       ("L" :> 76) @@ ("M" :> 77) @@ ("N" :> 78) @@ ("O" :> 79) @@ ("P" :> 80) @@ ("Q" :> 81) @@ ("R" :> 82) @@ ("S" :> 83) @@
       ("T" :> 84) @@ ("U" :> 85) @@ ("V" :> 86) @@ ("W" :> 87) @@ ("X" :> 88) @@ ("Y" :> 89) @@ ("Z" :> 90) @@ ("[" :> 91) @@
       ("\\" :> 92) @@ ("]" :> 93) @@ ("^" :> 94) @@ ("_" :> 95) @@ ("U+0060" :> 96) @@ ("a" :> 97) @@ ("b" :> 98) @@ ("c" :> 99) @@
       ("d" :> 100) @@ ("e" :> 101) @@ ("f" :> 102) @@ ("g" :> 103) @@ ("h" :> 104) @@ ("i" :> 105) @@ ("j" :> 106) @@ ("k" :> 107) @@
       ("l" :> 108) @@ ("m" :> 109) @@ ("n" :> 110) @@ ("o" :> 111) @@ ("p" :> 112) @@ ("q" :> 113) @@ ("r" :> 114) @@ ("s" :> 115) @@
       ("t" :> 116) @@ ("u" :> 117) @@ ("v" :> 118) @@ ("w" :> 119) @@ ("x" :> 120) @@ ("y" :> 121) @@ ("z" :> 122) @@ ("{" :> 123) @@
       ("|" :> 124) @@ ("}" :> 125) @@ ("~" :> 126) @@ ("U+00A2" :> 162) @@ ("U+00A9" :> 169) @@ ("U+00AF" :> 175) @@ ("U+00B0" :> 176) @@ ("U+00B1" :> 177) @@
       ("U+00B2" :> 178) @@ ("U+00B3" :> 179) @@ ("U+00B4" :> 180) @@ ("U+00B5" :> 181) @@ ("U+00B6" :> 182) @@ ("U+00B7" :> 183) @@ ("U+00BA" :> 186) @@ ("U+00BC" :> 188) @@
       ("U+00BF" :> 191) @@ ("U+00C2" :> 194) @@ ("U+00C3" :> 195) @@ ("U+00C5" :> 197) @@ ("U+00D0" :> 208) @@ ("U+00E2" :> 226) @@ ("U+00E3" :> 227) @@ ("U+00E5" :> 229) @@
       ("U+00F0" :> 240) @@ ("U+00FF" :> 255) @@ ("U+0104" :> 260) @@ ("U+0105" :> 261) @@ ("U+0178" :> 376) @@ ("U+0191" :> 401) @@ ("U+0192" :> 402) @@ ("U+039C" :> 924) @@
       ("U+03BC" :> 956) @@ ("U+2013" :> 8211) @@ ("U+2014" :> 8212) @@ ("U+201A" :> 8218) @@ ("U+201C" :> 8220) @@ ("U+201E" :> 8222) @@ ("U+2020" :> 8224) @@ ("U+2026" :> 8230) @@
       ("U+20AC" :> 8364)

\* str.lower() of the characters it changes.
LOWERCASE ==
       ("A" :> "a") @@ ("B" :> "b") @@ ("C" :> "c") @@ ("D" :> "d") @@ ("E" :> "e") @@ ("F" :> "f") @@ ("G" :> "g") @@ ("H" :> "h") @@
       ("I" :> "i") @@ ("J" :> "j") @@ ("K" :> "k") @@ ("L" :> "l") @@ ("M" :> "m") @@ ("N" :> "n") @@ ("O" :> "o") @@ ("P" :> "p") @@
       ("Q" :> "q") @@ ("R" :> "r") @@ ("S" :> "s") @@ ("T" :> "t") @@ ("U" :> "u") @@ ("V" :> "v") @@ ("W" :> "w") @@ ("X" :> "x") @@
       ("Y" :> "y") @@ ("Z" :> "z") @@ ("U+00C2" :> "U+00E2") @@ ("U+00C3" :> "U+00E3") @@ ("U+00C5" :> "U+00E5") @@ ("U+00D0" :> "U+00F0") @@ ("U+0104" :> "U+0105") @@ ("U+0178" :> "U+00FF") @@
       ("U+0191" :> "U+0192") @@ ("U+039C" :> "U+03BC")

\* str.upper() of the characters it changes.
UPPERCASE ==
       ("a" :> "A") @@ ("b" :> "B") @@ ("c" :> "C") @@ ("d" :> "D") @@ ("e" :> "E") @@ ("f" :> "F") @@ ("g" :> "G") @@ ("h" :> "H") @@
       ("i" :> "I") @@ ("j" :> "J") @@ ("k" :> "K") @@ ("l" :> "L") @@ ("m" :> "M") @@ ("n" :> "N") @@ ("o" :> "O") @@ ("p" :> "P") @@
       ("q" :> "Q") @@ ("r" :> "R") @@ ("s" :> "S") @@ ("t" :> "T") @@ ("u" :> "U") @@ ("v" :> "V") @@ ("w" :> "W") @@ ("x" :> "X") @@
       ("y" :> "Y") @@ ("z" :> "Z") @@ ("U+00B5" :> "U+039C") @@ ("U+00E2" :> "U+00C2") @@ ("U+00E3" :> "U+00C3") @@ ("U+00E5" :> "U+00C5") @@ ("U+00F0" :> "U+00D0") @@ ("U+00FF" :> "U+0178") @@
       ("U+0105" :> "U+0104") @@ ("U+0192" :> "U+0191") @@ ("U+03BC" :> "U+039C")

\* str.isspace(), and the category \s of re.
WHITESPACE ==
    {
       "\t", "\n", "\f", "\r", " "
    }

\* The category \d of re.
DIGITS ==
    {
       "0", "1", "2", "3", "4", "5", "6", "7", "8", "9"
    }

\* The category \w of re.
WORD ==
    {
       "0", "1", "2", "3", "4", "5", "6", "7", "8", "9", "A", "B", "C", "D", "E", "F",
       "G", "H", "I", "J", "K", "L", "M", "N", "O", "P", "Q", "R", "S", "T", "U", "V",
       "W", "X", "Y", "Z", "_", "a", "b", "c", "d", "e", "f", "g", "h", "i", "j", "k",
       "l", "m", "n", "o", "p", "q", "r", "s", "t", "u", "v", "w", "x", "y", "z", "U+00B2",
       "U+00B3", "U+00B5", "U+00BA", "U+00BC", "U+00C2", "U+00C3", "U+00C5", "U+00D0", "U+00E2", "U+00E3", "U+00E5", "U+00F0", "U+00FF", "U+0104", "U+0105", "U+0178",
       "U+0191", "U+0192", "U+039C", "U+03BC"
    }

\* str.isalpha().
ALPHA ==
    {
       "A", "B", "C", "D", "E", "F", "G", "H", "I", "J", "K", "L", "M", "N", "O", "P",
       "Q", "R", "S", "T", "U", "V", "W", "X", "Y", "Z", "a", "b", "c", "d", "e", "f",
       "g", "h", "i", "j", "k", "l", "m", "n", "o", "p", "q", "r", "s", "t", "u", "v",
       "w", "x", "y", "z", "U+00B5", "U+00BA", "U+00C2", "U+00C3", "U+00C5", "U+00D0", "U+00E2", "U+00E3", "U+00E5", "U+00F0", "U+00FF", "U+0104",
       "U+0105", "U+0178", "U+0191", "U+0192", "U+039C", "U+03BC"
    }


\* str.lower() / str.upper() of one character.
lower(c) == IF c \in DOMAIN LOWERCASE THEN LOWERCASE[c] ELSE c
upper(c) == IF c \in DOMAIN UPPERCASE THEN UPPERCASE[c] ELSE c
ord(c) == ORD[c]

---------------------------------------------------------------------------
(* Regular expressions: the syntax trees re compiles the patterns to *)

Lit(s) == [t |-> "lit", s |-> s]                 \* a run of literal characters
In(cs, rs, cats) == [t |-> "in", cs |-> cs, rs |-> rs, cats |-> cats]
                                                 \* [...]: characters, code-point ranges, categories
Dot == [t |-> "any"]                             \* .
Cat(ns) == [t |-> "cat", ns |-> ns]              \* concatenation
Alt(ns) == [t |-> "alt", ns |-> ns]              \* a|b, leftmost alternative first
Rep(n, lo, hi) == [t |-> "rep", n |-> n, lo |-> lo, hi |-> hi]
                                                 \* greedy repetition {lo,hi}
Grp(n) == [t |-> "grp", n |-> n]                 \* the capturing group \1
Bol == [t |-> "at", k |-> "bol"]                 \* ^
Eol == [t |-> "at", k |-> "eol"]                 \* $
Wb == [t |-> "at", k |-> "wb"]                   \* \b
IgnoreCase(n) == [t |-> "ic", n |-> n]           \* (?i) at the head of a pattern
Bad == [t |-> "bad"]                             \* a pattern re.compile rejects (re.error)

\* A negative hi is sre's MAXREPEAT: no upper limit.
Star(n) == Rep(n, 0, -1)
Plus(n) == Rep(n, 1, -1)
Opt(n) == Rep(n, 0, 1)
Chr(c) == In({c}, {}, {})
Set(cs) == In(cs, {}, {})
Space == In({}, {}, {"space"})
Digit == In({}, {}, {"digit"})
Word == In({}, {}, {"word"})

InCategory(c, cat) ==
    CASE cat = "space" -> c \in WHITESPACE
      [] cat = "digit" -> c \in DIGITS
      [] cat = "word" -> c \in WORD

InClass1(c, n) ==
    \/ c \in n.cs
    \/ \E r \in n.rs : r[1] <= ord(c) /\ ord(c) <= r[2]
    \/ \E cat \in n.cats : InCategory(c, cat)

\* Membership in a character class; with IGNORECASE either case of c may match.
InClass(c, n, ic) ==
    \/ InClass1(c, n)
    \/ ic /\ (InClass1(lower(c), n) \/ InClass1(upper(c), n))

EqChar(c, d, ic) == IF ic THEN lower(c) = lower(d) ELSE c = d

\* The zero-width assertions ^, $ and \b at position i (the next character is s[i]).
AtOk(k, s, i) ==
    CASE k = "bol" -> i = 1
      [] k = "eol" -> i = Len(s) + 1 \/ (i = Len(s) /\ s[i] = "\n")
      [] k = "wb" ->
            LET before == i > 1 /\ s[i - 1] \in WORD
                after == i <= Len(s) /\ s[i] \in WORD
            IN  before # after

\* A pattern is a compile error if any part of it is.
RECURSIVE IsBad(_)
IsBad(n) ==
    CASE n.t = "bad" -> TRUE
      [] n.t \in {"cat", "alt"} -> \E k \in 1..Len(n.ns) : IsBad(n.ns[k])
      [] n.t \in {"rep", "grp", "ic"} -> IsBad(n.n)
      [] OTHER -> FALSE

\* The matcher.  m(n, s, i, g, ic) is the sequence of ways n matches s from
\* position i, in the order a backtracking matcher tries them; each is
\* <<position after the match, span of group 1>>.
RECURSIVE m(_, _, _, _, _), mcat(_, _, _, _, _, _), mcatAll(_, _, _, _, _, _),
          malt(_, _, _, _, _, _), mrep(_, _, _, _, _, _), mrepAll(_, _, _, _, _, _, _)
m(n, s, i, g, ic) ==
    CASE n.t = "lit" ->
            IF /\ i + Len(n.s) - 1 <= Len(s)
               /\ \A k \in 1..Len(n.s) : EqChar(s[i + k - 1], n.s[k], ic)
            THEN << <<i + Len(n.s), g>> >> ELSE << >>
      [] n.t = "in" ->
            IF i <= Len(s) /\ InClass(s[i], n, ic) THEN << <<i + 1, g>> >> ELSE << >>
      [] n.t = "any" ->
            IF i <= Len(s) /\ s[i] # "\n" THEN << <<i + 1, g>> >> ELSE << >>
      [] n.t = "at" -> IF AtOk(n.k, s, i) THEN << <<i, g>> >> ELSE << >>
      [] n.t = "cat" -> mcat(n.ns, 1, s, i, g, ic)
      [] n.t = "alt" -> malt(n.ns, 1, s, i, g, ic)
      [] n.t = "rep" -> mrep(n, 0, s, i, g, ic)
      [] n.t = "grp" ->
            LET rs == m(n.n, s, i, g, ic)
            IN  [k \in 1..Len(rs) |-> <<rs[k][1], <<i, rs[k][1]>> >>]
      [] n.t = "ic" -> m(n.n, s, i, g, TRUE)

\* ns[k..] from position i.
mcat(ns, k, s, i, g, ic) ==
    IF k > Len(ns) THEN << <<i, g>> >>
    ELSE mcatAll(ns, k, s, m(ns[k], s, i, g, ic), 1, ic)

\* ns[k+1..] continued from each way rs[j..] of matching ns[k].
mcatAll(ns, k, s, rs, j, ic) ==
    IF j > Len(rs) THEN << >>
    ELSE mcat(ns, k + 1, s, rs[j][1], rs[j][2], ic) \o mcatAll(ns, k, s, rs, j + 1, ic)

malt(ns, k, s, i, g, ic) ==
    IF k > Len(ns) THEN << >>
    ELSE m(ns[k], s, i, g, ic) \o malt(ns, k + 1, s, i, g, ic)

\* Greedy repetition after cnt iterations: one more iteration first, then stop.
mrep(n, cnt, s, i, g, ic) ==
    LET more == IF n.hi < 0 \/ cnt < n.hi THEN mrepAll(n, cnt, s, i, m(n.n, s, i, g, ic), 1, ic) ELSE << >>
        stop == IF cnt >= n.lo THEN << <<i, g>> >> ELSE << >>
    IN  more \o stop

\* An iteration that consumed nothing is not repeated.
mrepAll(n, cnt, s, i, rs, j, ic) ==
    IF j > Len(rs) THEN << >>
    ELSE (IF rs[j][1] > i THEN mrep(n, cnt + 1, s, rs[j][1], rs[j][2], ic) ELSE << >>)
         \o mrepAll(n, cnt, s, i, rs, j + 1, ic)

NoGroup == <<0, 0>>

\* re.match(pattern, s, flags): a match starting at the first character.
re_match(n, s, ic) == m(n, s, 1, NoGroup, ic) # << >>

\* The first position >= i at which n matches, or 0.
RECURSIVE FirstMatch(_, _, _, _)
FirstMatch(n, s, i, ic) ==
    IF i > Len(s) + 1 THEN 0
    ELSE IF m(n, s, i, NoGroup, ic) # << >> THEN i
    ELSE FirstMatch(n, s, i + 1, ic)

\* re.search(pattern, s, flags): a match starting anywhere.
re_search(n, s, ic) == FirstMatch(n, s, 1, ic) # 0

\* The replacement template expanded for one match: "\\1" stands for group 1.
RECURSIVE Expand(_, _, _)
Expand(repl, s, g) ==
    IF repl = << >> THEN << >>
    ELSE (IF Head(repl) = "\\1" THEN SubSeq(s, g[1], g[2] - 1) ELSE <<Head(repl)>>)
         \o Expand(Tail(repl), s, g)

\* re.sub(pattern, repl, s, flags): every non-overlapping match, leftmost first,
\* replaced; pos is the first character not yet copied.
RECURSIVE SubFrom(_, _, _, _, _)
SubFrom(n, repl, s, pos, ic) ==
    LET i == FirstMatch(n, s, pos, ic)
    IN  IF i = 0 THEN SubSeq(s, pos, Len(s))
        ELSE LET r == m(n, s, i, NoGroup, ic)[1]
                 e == r[1]
             IN  IF e > i
                 THEN SubSeq(s, pos, i - 1) \o Expand(repl, s, r[2]) \o SubFrom(n, repl, s, e, ic)
                 ELSE SubSeq(s, pos, i - 1) \o Expand(repl, s, r[2])
                      \o (IF i <= Len(s) THEN <<s[i]>> \o SubFrom(n, repl, s, i + 1, ic)
                          ELSE << >>)

re_sub(n, repl, s, ic) == SubFrom(n, repl, s, 1, ic)

---------------------------------------------------------------------------
(* src/fixHallucinatedScreams.py *)

\* File patterns that contain non-verbal sounds (screams/groans).
NONVERBAL_FILE_PATTERNS ==
    << \* r'_pain_big_'
       Lit(<<"_", "p", "a", "i", "n", "_", "b", "i", "g", "_">>),
       \* r'_pain_small_'
       Lit(<<"_", "p", "a", "i", "n", "_", "s", "m", "a", "l", "l", "_">>),
       \* r'_pain_death_'
       Lit(<<"_", "p", "a", "i", "n", "_", "d", "e", "a", "t", "h", "_">>),
       \* r'_pain_akira_laser_'
       Lit(<<"_", "p", "a", "i", "n", "_", "a", "k", "i", "r", "a", "_", "l", "a", "s", "e", "r", "_">>),
       \* r'_effort_'
       Lit(<<"_", "e", "f", "f", "o", "r", "t", "_">>)
    >>

\* Patterns that indicate hallucinated text, matched with re.IGNORECASE.  Two
\* of them are character classes with a reversed range, which re.compile
\* rejects: re.search raises re.error when the loop reaches them.
HALLUCINATION_PATTERNS ==
    << \* r'thank\s*(you|u)\s*(for)?\s*watching'
       Cat(<<Lit(<<"t", "h", "a", "n", "k">>), Star(Space), Alt(<<Lit(<<"y", "o", "u">>), Lit(<<"u">>)>>), Star(Space), Opt(Lit(<<"f", "o", "r">>)), Star(Space), Lit(<<"w", "a", "t", "c", "h", "i", "n", "g">>)>>),
       \* r'thanks\s*(for)?\s*watching'
       Cat(<<Lit(<<"t", "h", "a", "n", "k", "s">>), Star(Space), Opt(Lit(<<"f", "o", "r">>)), Star(Space), Lit(<<"w", "a", "t", "c", "h", "i", "n", "g">>)>>),
       \* r'subscri(be|b|ption)'
       Cat(<<Lit(<<"s", "u", "b", "s", "c", "r", "i">>), Alt(<<Lit(<<"b", "e">>), Lit(<<"b">>), Lit(<<"p", "t", "i", "o", "n">>)>>)>>),
       \* r'like.*comment.*subscri'
       Cat(<<Lit(<<"l", "i", "k", "e">>), Star(Dot), Lit(<<"c", "o", "m", "m", "e", "n", "t">>), Star(Dot), Lit(<<"s", "u", "b", "s", "c", "r", "i">>)>>),
       \* r"don\'?t\s*forget\s*to"
       Cat(<<Lit(<<"d", "o", "n">>), Opt(Lit(<<"'">>)), Lit(<<"t">>), Star(Space), Lit(<<"f", "o", "r", "g", "e", "t">>), Star(Space), Lit(<<"t", "o">>)>>),
       \* r'leave\s*a\s*comment'
       Cat(<<Lit(<<"l", "e", "a", "v", "e">>), Star(Space), Lit(<<"a">>), Star(Space), Lit(<<"c", "o", "m", "m", "e", "n", "t">>)>>),
       \* r'next\s*video'
       Cat(<<Lit(<<"n", "e", "x", "t">>), Star(Space), Lit(<<"v", "i", "d", "e", "o">>)>>),
       \* r'previous\s*video'
       Cat(<<Lit(<<"p", "r", "e", "v", "i", "o", "u", "s">>), Star(Space), Lit(<<"v", "i", "d", "e", "o">>)>>),
       \* r'see\s*you\s*in\s*the'
       Cat(<<Lit(<<"s", "e", "e">>), Star(Space), Lit(<<"y", "o", "u">>), Star(Space), Lit(<<"i", "n">>), Star(Space), Lit(<<"t", "h", "e">>)>>),
       \* r'hope\s*you\s*enjoy'
       Cat(<<Lit(<<"h", "o", "p", "e">>), Star(Space), Lit(<<"y", "o", "u">>), Star(Space), Lit(<<"e", "n", "j", "o", "y">>)>>),
       \* r'enjoy\s*the\s*video'
       Cat(<<Lit(<<"e", "n", "j", "o", "y">>), Star(Space), Lit(<<"t", "h", "e">>), Star(Space), Lit(<<"v", "i", "d", "e", "o">>)>>),
       \* r'click\s*(on|the|here)'
       Cat(<<Lit(<<"c", "l", "i", "c", "k">>), Star(Space), Alt(<<Lit(<<"o", "n">>), Lit(<<"t", "h", "e">>), Lit(<<"h", "e", "r", "e">>)>>)>>),
       \* r'notification'
       Lit(<<"n", "o", "t", "i", "f", "i", "c", "a", "t", "i", "o", "n">>),
       \* r'channel'
       Lit(<<"c", "h", "a", "n", "n", "e", "l">>),
       \* r'patreon'
       Lit(<<"p", "a", "t", "r", "e", "o", "n">>),
       \* r'please\s*like'
       Cat(<<Lit(<<"p", "l", "e", "a", "s", "e">>), Star(Space), Lit(<<"l", "i", "k", "e">>)>>),
       \* r'link\s*in\s*(the)?\s*description'
       Cat(<<Lit(<<"l", "i", "n", "k">>), Star(Space), Lit(<<"i", "n">>), Star(Space), Opt(Lit(<<"t", "h", "e">>)), Star(Space), Lit(<<"d", "e", "s", "c", "r", "i", "p", "t", "i", "o", "n">>)>>),
       \* r'transcription\s*(by|is|has|service)'
       Cat(<<Lit(<<"t", "r", "a", "n", "s", "c", "r", "i", "p", "t", "i", "o", "n">>), Star(Space), Alt(<<Lit(<<"b", "y">>), Lit(<<"i", "s">>), Lit(<<"h", "a", "s">>), Lit(<<"s", "e", "r", "v", "i", "c", "e">>)>>)>>),
       \* r'translation\s*(by|is)'
       Cat(<<Lit(<<"t", "r", "a", "n", "s", "l", "a", "t", "i", "o", "n">>), Star(Space), Alt(<<Lit(<<"b", "y">>), Lit(<<"i", "s">>)>>)>>),
       \* r'subs?\s*by'
       Cat(<<Lit(<<"s", "u", "b">>), Opt(Lit(<<"s">>)), Star(Space), Lit(<<"b", "y">>)>>),
       \* r'subtitle'
       Lit(<<"s", "u", "b", "t", "i", "t", "l", "e">>),
       \* r'casting\s*words'
       Cat(<<Lit(<<"c", "a", "s", "t", "i", "n", "g">>), Star(Space), Lit(<<"w", "o", "r", "d", "s">>)>>),
       \* r'do\s*not\s*include\s*extra\s*whitespace'
       Cat(<<Lit(<<"d", "o">>), Star(Space), Lit(<<"n", "o", "t">>), Star(Space), Lit(<<"i", "n", "c", "l", "u", "d", "e">>), Star(Space), Lit(<<"e", "x", "t", "r", "a">>), Star(Space), Lit(<<"w", "h", "i", "t", "e", "s", "p", "a", "c", "e">>)>>),
       \* r'ambiguous\s*transcription'
       Cat(<<Lit(<<"a", "m", "b", "i", "g", "u", "o", "u", "s">>), Star(Space), Lit(<<"t", "r", "a", "n", "s", "c", "r", "i", "p", "t", "i", "o", "n">>)>>),
       \* r'transcription\s*sting'
       Cat(<<Lit(<<"t", "r", "a", "n", "s", "c", "r", "i", "p", "t", "i", "o", "n">>), Star(Space), Lit(<<"s", "t", "i", "n", "g">>)>>),
       \* r'http[s]?://'
       Cat(<<Lit(<<"h", "t", "t", "p">>), Opt(Lit(<<"s">>)), Lit(<<":", "/", "/">>)>>),
       \* r'www\.'
       Lit(<<"w", "w", "w", ".">>),
       \* r'\.com'
       Lit(<<".", "c", "o", "m">>),
       \* r'\.co\.uk'
       Lit(<<".", "c", "o", ".", "u", "k">>),
       \* r'\.org'
       Lit(<<".", "o", "r", "g">>),
       \* r'\.net'
       Lit(<<".", "n", "e", "t">>),
       \* r'\.au'
       Lit(<<".", "a", "u">>),
       \* r'sites\.google'
       Lit(<<"s", "i", "t", "e", "s", ".", "g", "o", "o", "g", "l", "e">>),
       \* r'youtube'
       Lit(<<"y", "o", "u", "t", "u", "b", "e">>),
       \* r'tinyurl'
       Lit(<<"t", "i", "n", "y", "u", "r", "l">>),
       \* r'slidespot'
       Lit(<<"s", "l", "i", "d", "e", "s", "p", "o", "t">>),
       \* r'pissedconsumer'
       Lit(<<"p", "i", "s", "s", "e", "d", "c", "o", "n", "s", "u", "m", "e", "r">>),
       \* r'\u00c2\u00a9'
       Lit(<<"U+00C2", "U+00A9">>),
       \* r'copyright'
       Lit(<<"c", "o", "p", "y", "r", "i", "g", "h", "t">>),
       \* r'all\s*rights\s*reserved'
       Cat(<<Lit(<<"a", "l", "l">>), Star(Space), Lit(<<"r", "i", "g", "h", "t", "s">>), Star(Space), Lit(<<"r", "e", "s", "e", "r", "v", "e", "d">>)>>),
       \* r'trademark'
       Lit(<<"t", "r", "a", "d", "e", "m", "a", "r", "k">>),
       \* r'disney'
       Lit(<<"d", "i", "s", "n", "e", "y">>),
       \* r'all\s*characters.*fictitious'
       Cat(<<Lit(<<"a", "l", "l">>), Star(Space), Lit(<<"c", "h", "a", "r", "a", "c", "t", "e", "r", "s">>), Star(Dot), Lit(<<"f", "i", "c", "t", "i", "t", "i", "o", "u", "s">>)>>),
       \* r'disclaimer'
       Lit(<<"d", "i", "s", "c", "l", "a", "i", "m", "e", "r">>),
       \* r'used\s*by\s*permission'
       Cat(<<Lit(<<"u", "s", "e", "d">>), Star(Space), Lit(<<"b", "y">>), Star(Space), Lit(<<"p", "e", "r", "m", "i", "s", "s", "i", "o", "n">>)>>),
       \* r'to\s*be\s*continued'
       Cat(<<Lit(<<"t", "o">>), Star(Space), Lit(<<"b", "e">>), Star(Space), Lit(<<"c", "o", "n", "t", "i", "n", "u", "e", "d">>)>>),
       \* r'the\s*end\.?$'
       Cat(<<Lit(<<"t", "h", "e">>), Star(Space), Lit(<<"e", "n", "d">>), Opt(Lit(<<".">>)), Eol>>),
       \* r'^game\s*over$'
       Cat(<<Bol, Lit(<<"g", "a", "m", "e">>), Star(Space), Lit(<<"o", "v", "e", "r">>), Eol>>),
       \* r'first\s*person\s*videos?'
       Cat(<<Lit(<<"f", "i", "r", "s", "t">>), Star(Space), Lit(<<"p", "e", "r", "s", "o", "n">>), Star(Space), Lit(<<"v", "i", "d", "e", "o">>), Opt(Lit(<<"s">>))>>),
       \* r'chapter\s*\d'
       Cat(<<Lit(<<"c", "h", "a", "p", "t", "e", "r">>), Star(Space), Digit>>),
       \* r'episode\s*\d'
       Cat(<<Lit(<<"e", "p", "i", "s", "o", "d", "e">>), Star(Space), Digit>>),
       \* r'part\s*\d'
       Cat(<<Lit(<<"p", "a", "r", "t">>), Star(Space), Digit>>),
       \* r'^available\s*(now|at|for)'
       Cat(<<Bol, Lit(<<"a", "v", "a", "i", "l", "a", "b", "l", "e">>), Star(Space), Alt(<<Lit(<<"n", "o", "w">>), Lit(<<"a", "t">>), Lit(<<"f", "o", "r">>)>>)>>),
       \* r'[\u00d0\u00b0-\u00d1\u00d0-\u00d0\u00af]{3,}'
       Rep(In({"U+00D0", "U+00AF"}, {<<176, 209>>, <<208, 208>>}, {}), 3, -1),
       \* r'[\u00e3\u201e\u00b1-\u00e3\u2026\u017d\u00ea\u00b0\u20ac-\u00ed\u017e\u00a3]{2,}'
       Bad,
       \* r'[\u00e3-\u00e3\u201a\u201c\u00e3\u201a\u00a1-\u00e3\u0192\u00b3]{3,}'
       Rep(In({"U+201A", "U+201C", "U+00E3", "U+0192", "U+00B3"}, {<<227, 227>>, <<161, 227>>}, {}), 3, -1),
       \* r'[\u00e4\u00b8\u20ac-\u00e9\u00be\u00a5]{2,}'
       Bad,
       \* r'\u00c3\u00a9h\u00c3\u00a9h\u00c3\u00a9'
       Lit(<<"U+00C3", "U+00A9", "h", "U+00C3", "U+00A9", "h", "U+00C3", "U+00A9">>),
       \* r'\u00f0\u0178\u2026\u00b1|\u00f0\u0178\u2026\u00b0|\u00f0\u0178\u2026\u00b5|\u00f0\u0178\u2020\u201a|\u00f0\u0178\u2020|\u00f0\u0178\u2020\u0192|\u00f0\u0178\u2026\u00b7|\u00f0\u0178\u2026\u00b4|\u00f0\u0178\u2026\u00b6|\u00f0\u0178\u2026\u00b3|\u00f0\u0178\u2026\u00bf'
       Alt(<<Lit(<<"U+00F0", "U+0178", "U+2026", "U+00B1">>), Lit(<<"U+00F0", "U+0178", "U+2026", "U+00B0">>), Lit(<<"U+00F0", "U+0178", "U+2026", "U+00B5">>), Lit(<<"U+00F0", "U+0178", "U+2020", "U+201A">>), Lit(<<"U+00F0", "U+0178", "U+2020">>), Lit(<<"U+00F0", "U+0178", "U+2020", "U+0192">>), Lit(<<"U+00F0", "U+0178", "U+2026", "U+00B7">>), Lit(<<"U+00F0", "U+0178", "U+2026", "U+00B4">>), Lit(<<"U+00F0", "U+0178", "U+2026", "U+00B6">>), Lit(<<"U+00F0", "U+0178", "U+2026", "U+00B3">>), Lit(<<"U+00F0", "U+0178", "U+2026", "U+00BF">>)>>),
       \* r'[\u00e2\u2013\u00ba\u00e2\u2014\u201e\u00e2\u2013\u00b2\u00e2\u2013\u00bc]{2,}'
       Rep(Set({"U+00E2", "U+2013", "U+00BA", "U+2014", "U+201E", "U+00B2", "U+00BC"}), 2, -1),
       \* r'if\s*you\s*(find|have|did|enjoyed)'
       Cat(<<Lit(<<"i", "f">>), Star(Space), Lit(<<"y", "o", "u">>), Star(Space), Alt(<<Lit(<<"f", "i", "n", "d">>), Lit(<<"h", "a", "v", "e">>), Lit(<<"d", "i", "d">>), Lit(<<"e", "n", "j", "o", "y", "e", "d">>)>>)>>),
       \* r'please\s*(see|click|post|leave)'
       Cat(<<Lit(<<"p", "l", "e", "a", "s", "e">>), Star(Space), Alt(<<Lit(<<"s", "e", "e">>), Lit(<<"c", "l", "i", "c", "k">>), Lit(<<"p", "o", "s", "t">>), Lit(<<"l", "e", "a", "v", "e">>)>>)>>),
       \* r'questions?\s*(or|and)?\s*(comments?|problems?)'
       Cat(<<Lit(<<"q", "u", "e", "s", "t", "i", "o", "n">>), Opt(Lit(<<"s">>)), Star(Space), Opt(Alt(<<Lit(<<"o", "r">>), Lit(<<"a", "n", "d">>)>>)), Star(Space), Alt(<<Cat(<<Lit(<<"c", "o", "m", "m", "e", "n", "t">>), Opt(Lit(<<"s">>))>>), Cat(<<Lit(<<"p", "r", "o", "b", "l", "e", "m">>), Opt(Lit(<<"s">>))>>)>>)>>),
       \* r'comments?\s*section'
       Cat(<<Lit(<<"c", "o", "m", "m", "e", "n", "t">>), Opt(Lit(<<"s">>)), Star(Space), Lit(<<"s", "e", "c", "t", "i", "o", "n">>)>>),
       \* r'classroom\s*footage'
       Cat(<<Lit(<<"c", "l", "a", "s", "s", "r", "o", "o", "m">>), Star(Space), Lit(<<"f", "o", "o", "t", "a", "g", "e">>)>>),
       \* r'save\s*it\s*in\s*your'
       Cat(<<Lit(<<"s", "a", "v", "e">>), Star(Space), Lit(<<"i", "t">>), Star(Space), Lit(<<"i", "n">>), Star(Space), Lit(<<"y", "o", "u", "r">>)>>),
       \* r'horse\s*neighs'
       Cat(<<Lit(<<"h", "o", "r", "s", "e">>), Star(Space), Lit(<<"n", "e", "i", "g", "h", "s">>)>>),
       \* r'teenage\s*girl\s*screams'
       Cat(<<Lit(<<"t", "e", "e", "n", "a", "g", "e">>), Star(Space), Lit(<<"g", "i", "r", "l">>), Star(Space), Lit(<<"s", "c", "r", "e", "a", "m", "s">>)>>),
       \* r'awkward\s*silence'
       Cat(<<Lit(<<"a", "w", "k", "w", "a", "r", "d">>), Star(Space), Lit(<<"s", "i", "l", "e", "n", "c", "e">>)>>),
       \* r'scream\s*song'
       Cat(<<Lit(<<"s", "c", "r", "e", "a", "m">>), Star(Space), Lit(<<"s", "o", "n", "g">>)>>),
       \* r'u\.?s\.?\s*money\s*reserve'
       Cat(<<Lit(<<"u">>), Opt(Lit(<<".">>)), Lit(<<"s">>), Opt(Lit(<<".">>)), Star(Space), Lit(<<"m", "o", "n", "e", "y">>), Star(Space), Lit(<<"r", "e", "s", "e", "r", "v", "e">>)>>),
       \* r'rhyme\s*films'
       Cat(<<Lit(<<"r", "h", "y", "m", "e">>), Star(Space), Lit(<<"f", "i", "l", "m", "s">>)>>),
       \* r'bloopers?'
       Cat(<<Lit(<<"b", "l", "o", "o", "p", "e", "r">>), Opt(Lit(<<"s">>))>>),
       \* r'off\s*camera'
       Cat(<<Lit(<<"o", "f", "f">>), Star(Space), Lit(<<"c", "a", "m", "e", "r", "a">>)>>),
       \* r'available.*free'
       Cat(<<Lit(<<"a", "v", "a", "i", "l", "a", "b", "l", "e">>), Star(Dot), Lit(<<"f", "r", "e", "e">>)>>),
       \* r'weltwerk'
       Lit(<<"w", "e", "l", "t", "w", "e", "r", "k">>),
       \* r'behaviour'
       Lit(<<"b", "e", "h", "a", "v", "i", "o", "u", "r">>),
       \* r'answers?\s*this\s*question'
       Cat(<<Lit(<<"a", "n", "s", "w", "e", "r">>), Opt(Lit(<<"s">>)), Star(Space), Lit(<<"t", "h", "i", "s">>), Star(Space), Lit(<<"q", "u", "e", "s", "t", "i", "o", "n">>)>>),
       \* r'perfect\s*for\s*that\s*purpose'
       Cat(<<Lit(<<"p", "e", "r", "f", "e", "c", "t">>), Star(Space), Lit(<<"f", "o", "r">>), Star(Space), Lit(<<"t", "h", "a", "t">>), Star(Space), Lit(<<"p", "u", "r", "p", "o", "s", "e">>)>>),
       \* r'keep\s*the\s*video'
       Cat(<<Lit(<<"k", "e", "e", "p">>), Star(Space), Lit(<<"t", "h", "e">>), Star(Space), Lit(<<"v", "i", "d", "e", "o">>)>>),
       \* r"children\'?s\s*charity"
       Cat(<<Lit(<<"c", "h", "i", "l", "d", "r", "e", "n">>), Opt(Lit(<<"'">>)), Lit(<<"s">>), Star(Space), Lit(<<"c", "h", "a", "r", "i", "t", "y">>)>>),
       \* r'amogus'
       Lit(<<"a", "m", "o", "g", "u", "s">>),
       \* r'control$'
       Cat(<<Lit(<<"c", "o", "n", "t", "r", "o", "l">>), Eol>>),
       \* r'^grunt$'
       Cat(<<Bol, Lit(<<"g", "r", "u", "n", "t">>), Eol>>),
       \* r'^cough$'
       Cat(<<Bol, Lit(<<"c", "o", "u", "g", "h">>), Eol>>),
       \* r'\*\*?(burp|fart|yawn|sigh|groan|grunt|shiver)\*\*?'
       Cat(<<Lit(<<"*">>), Opt(Lit(<<"*">>)), Alt(<<Lit(<<"b", "u", "r", "p">>), Lit(<<"f", "a", "r", "t">>), Lit(<<"y", "a", "w", "n">>), Lit(<<"s", "i", "g", "h">>), Lit(<<"g", "r", "o", "a", "n">>), Lit(<<"g", "r", "u", "n", "t">>), Lit(<<"s", "h", "i", "v", "e", "r">>)>>), Lit(<<"*">>), Opt(Lit(<<"*">>))>>),
       \* r'\(\*(burp|fart|yawn|sigh|groan|grunt|shiver|horse)\*\)'
       Cat(<<Lit(<<"(", "*">>), Alt(<<Lit(<<"b", "u", "r", "p">>), Lit(<<"f", "a", "r", "t">>), Lit(<<"y", "a", "w", "n">>), Lit(<<"s", "i", "g", "h">>), Lit(<<"g", "r", "o", "a", "n">>), Lit(<<"g", "r", "u", "n", "t">>), Lit(<<"s", "h", "i", "v", "e", "r">>), Lit(<<"h", "o", "r", "s", "e">>)>>), Lit(<<"*", ")">>)>>)
    >>

\* Patterns that indicate valid screams/groans, matched with re.IGNORECASE.
VALID_SCREAM_PATTERNS ==
    << \* r'^[AaUuOoEe]+[HhGgRr]*[!\.]*$'
       Cat(<<Bol, Plus(Set({"A", "a", "U", "u", "O", "o", "E", "e"})), Star(Set({"H", "h", "G", "g", "R", "r"})), Star(Set({"!", "."})), Eol>>),
       \* r"^(G|D\'?)?[AaUuOo]+[HhGgRr]*[!\.]*$"
       Cat(<<Bol, Opt(Alt(<<Lit(<<"G">>), Cat(<<Lit(<<"D">>), Opt(Lit(<<"'">>))>>)>>)), Plus(Set({"A", "a", "U", "u", "O", "o"})), Star(Set({"H", "h", "G", "g", "R", "r"})), Star(Set({"!", "."})), Eol>>),
       \* r'^[Hh]+[IiYyAaUu]+[AaHh]*[!\.]*$'
       Cat(<<Bol, Plus(Set({"H", "h"})), Plus(Set({"I", "i", "Y", "y", "A", "a", "U", "u"})), Star(Set({"A", "a", "H", "h"})), Star(Set({"!", "."})), Eol>>),
       \* r'^(Ny|N)[AaEeUu]+[Hh]*[!\.]*$'
       Cat(<<Bol, Alt(<<Lit(<<"N", "y">>), Lit(<<"N">>)>>), Plus(Set({"A", "a", "E", "e", "U", "u"})), Star(Set({"H", "h"})), Star(Set({"!", "."})), Eol>>),
       \* r'^[Oo]+[FfOo]+[!\.]*$'
       Cat(<<Bol, Plus(Set({"O", "o"})), Plus(Set({"F", "f", "O", "o"})), Star(Set({"!", "."})), Eol>>),
       \* r'^[Bb]+[AaLlRrUu]+[GgHhRr]*[!\.]*$'
       Cat(<<Bol, Plus(Set({"B", "b"})), Plus(Set({"A", "a", "L", "l", "R", "r", "U", "u"})), Star(Set({"G", "g", "H", "h", "R", "r"})), Star(Set({"!", "."})), Eol>>),
       \* r'^[Rr]+[AaOo]+[Ww]*[Rr]*[!\.]*$'
       Cat(<<Bol, Plus(Set({"R", "r"})), Plus(Set({"A", "a", "O", "o"})), Star(Set({"W", "w"})), Star(Set({"R", "r"})), Star(Set({"!", "."})), Eol>>),
       \* r'^[Mm]+[Ww]*[Aa]+[Hh]*[!\.]*$'
       Cat(<<Bol, Plus(Set({"M", "m"})), Star(Set({"W", "w"})), Plus(Set({"A", "a"})), Star(Set({"H", "h"})), Star(Set({"!", "."})), Eol>>),
       \* r'^[Hh]+[Mm]+[Pp]*[Hh]*[Ff]*[!\.]*$'
       Cat(<<Bol, Plus(Set({"H", "h"})), Plus(Set({"M", "m"})), Star(Set({"P", "p"})), Star(Set({"H", "h"})), Star(Set({"F", "f"})), Star(Set({"!", "."})), Eol>>),
       \* r'^[Yy]+[Ee]*[Aa]+[Hh]*[!\.]*$'
       Cat(<<Bol, Plus(Set({"Y", "y"})), Star(Set({"E", "e"})), Plus(Set({"A", "a"})), Star(Set({"H", "h"})), Star(Set({"!", "."})), Eol>>),
       \* r'^[Nn]+[Oo]+[!\.]*$'
       Cat(<<Bol, Plus(Set({"N", "n"})), Plus(Set({"O", "o"})), Star(Set({"!", "."})), Eol>>),
       \* r'^[Oo]+[Ww]+[!\.]*$'
       Cat(<<Bol, Plus(Set({"O", "o"})), Plus(Set({"W", "w"})), Star(Set({"!", "."})), Eol>>),
       \* r'^[Hh]+[Uu]+[Hh]*[!\.]*$'
       Cat(<<Bol, Plus(Set({"H", "h"})), Plus(Set({"U", "u"})), Star(Set({"H", "h"})), Star(Set({"!", "."})), Eol>>),
       \* r'^[Ss]+[Ee]+[Ee]*[Yy]*[Aa]*[!\.]*$'
       Cat(<<Bol, Plus(Set({"S", "s"})), Plus(Set({"E", "e"})), Star(Set({"E", "e"})), Star(Set({"Y", "y"})), Star(Set({"A", "a"})), Star(Set({"!", "."})), Eol>>),
       \* r'^[Bb]+[Oo]+[Oo]*[Ff]*[!\.]*$'
       Cat(<<Bol, Plus(Set({"B", "b"})), Plus(Set({"O", "o"})), Star(Set({"O", "o"})), Star(Set({"F", "f"})), Star(Set({"!", "."})), Eol>>),
       \* r'^[Gg]+[Rr]+[Rr]*[!\.]*$'
       Cat(<<Bol, Plus(Set({"G", "g"})), Plus(Set({"R", "r"})), Star(Set({"R", "r"})), Star(Set({"!", "."})), Eol>>)
    >>

\* "single punctuation/numbers only":  r'^[\s\d\.,\?\!\-\/\~\\u00e2\u20ac\u00a2\=]+$'
PUNCTUATION_ONLY ==
    Cat(<<Bol, Plus(In({".", ",", "?", "!", "-", "/", "~", "U+00E2", "U+20AC", "U+00A2", "="}, {}, {"space", "digit"})), Eol>>)

\* str.strip(): leading and trailing white space removed.
RECURSIVE lstrip(_), rstrip(_)
lstrip(s) == IF s # << >> /\ Head(s) \in WHITESPACE THEN lstrip(Tail(s)) ELSE s
rstrip(s) ==
    IF s # << >> /\ s[Len(s)] \in WHITESPACE THEN rstrip(SubSeq(s, 1, Len(s) - 1)) ELSE s
strip(s) == lstrip(rstrip(s))

\* len(s.split()): the number of maximal runs of non-white-space characters.
split_len(s) ==
    Cardinality({ i \in 1..Len(s) :
        s[i] \notin WHITESPACE /\ (i = 1 \/ s[i - 1] \in WHITESPACE) })

\* "for pattern in patterns: if re.match/re.search(pattern, t, re.IGNORECASE)":
\* "hit" at the first pattern that matches, "re.error" at a pattern that does
\* not compile if the loop gets that far, "none" when the loop runs out.
RECURSIVE FirstHit(_, _, _, _)
FirstHit(patterns, k, t, anywhere) ==
    IF k > Len(patterns) THEN "none"
    ELSE IF IsBad(patterns[k]) THEN "re.error"
    ELSE IF (IF anywhere THEN re_search(patterns[k], t, TRUE) ELSE re_match(patterns[k], t, TRUE))
         THEN "hit"
    ELSE FirstHit(patterns, k + 1, t, anywhere)

\* The length above which a text is no scream: "len(text.split()) > 5".
MAX_SCREAM_TOKENS == 5

\* is_hallucinated(text): "True", "False", or "re.error" when it raises.
\* is_hallucinated with the allow list left out.
is_hallucinated_no_allowlist(s) ==
    IF s = << >> THEN "False"
    ELSE LET t == strip(s)
             halluc == FirstHit(HALLUCINATION_PATTERNS, 1, t, TRUE)
         IN  IF t = << >> THEN "False"
             ELSE IF halluc = "hit" THEN "True"
             ELSE IF halluc = "re.error" THEN "re.error"
             ELSE IF re_match(PUNCTUATION_ONLY, t, FALSE) THEN "True"
             ELSE IF split_len(t) > MAX_SCREAM_TOKENS THEN "True"
             ELSE "False"

\* is_hallucinated with the text not stripped.
is_hallucinated_unstripped(s) ==
    IF s = << >> THEN "False"
    ELSE LET valid == FirstHit(VALID_SCREAM_PATTERNS, 1, s, FALSE)
             halluc == FirstHit(HALLUCINATION_PATTERNS, 1, s, TRUE)
         IN  IF valid = "hit" THEN "False"
             ELSE IF valid = "re.error" THEN "re.error"
             ELSE IF halluc = "hit" THEN "True"
             ELSE IF halluc = "re.error" THEN "re.error"
             ELSE IF re_match(PUNCTUATION_ONLY, s, FALSE) THEN "True"
             ELSE IF split_len(s) > MAX_SCREAM_TOKENS THEN "True"
             ELSE "False"

is_hallucinated(s) ==
    IF s = << >> THEN "False"
    ELSE LET t == strip(s)
             valid == FirstHit(VALID_SCREAM_PATTERNS, 1, t, FALSE)
             halluc == FirstHit(HALLUCINATION_PATTERNS, 1, t, TRUE)
         IN  IF t = << >> THEN "False"
             ELSE IF valid = "hit" THEN "False"
             ELSE IF valid = "re.error" THEN "re.error"
             ELSE IF halluc = "hit" THEN "True"
             ELSE IF halluc = "re.error" THEN "re.error"
             ELSE IF re_match(PUNCTUATION_ONLY, t, FALSE) THEN "True"
             ELSE IF split_len(t) > MAX_SCREAM_TOKENS THEN "True"
             ELSE "False"

\* should_process_file with the patterns matched at the start of the name only.
should_process_file_at_start(filename) ==
    \E k \in 1..Len(NONVERBAL_FILE_PATTERNS) :
        re_match(NONVERBAL_FILE_PATTERNS[k], filename, FALSE)

\* should_process_file keeping every file.
should_process_file_always(filename) == TRUE

\* should_process_file(filename)
should_process_file(filename) ==
    \E k \in 1..Len(NONVERBAL_FILE_PATTERNS) :
        re_search(NONVERBAL_FILE_PATTERNS[k], filename, FALSE)

---------------------------------------------------------------------------
(* src/autoFixWhisperErrors.py *)

\* Character name corrections, in the insertion order of the dict.
CHARACTER_NAME_CORRECTIONS ==
    << \* 'Dormin': 'Doorman'
       <<<<"D", "o", "r", "m", "i", "n">>, <<"D", "o", "o", "r", "m", "a", "n">>>>,
       \* 'Dorman': 'Doorman'
       <<<<"D", "o", "r", "m", "a", "n">>, <<"D", "o", "o", "r", "m", "a", "n">>>>,
       \* 'Doman': 'Doorman'
       <<<<"D", "o", "m", "a", "n">>, <<"D", "o", "o", "r", "m", "a", "n">>>>,
       \* 'Dolmen': 'Doorman'
       <<<<"D", "o", "l", "m", "e", "n">>, <<"D", "o", "o", "r", "m", "a", "n">>>>,
       \* 'Doughman': 'Doorman'
       <<<<"D", "o", "u", "g", "h", "m", "a", "n">>, <<"D", "o", "o", "r", "m", "a", "n">>>>,
       \* 'Tolman': 'Doorman'
       <<<<"T", "o", "l", "m", "a", "n">>, <<"D", "o", "o", "r", "m", "a", "n">>>>,
       \* 'Dormant': 'Doorman'
       <<<<"D", "o", "r", "m", "a", "n", "t">>, <<"D", "o", "o", "r", "m", "a", "n">>>>,
       \* 'Dormants': "Doorman's"
       <<<<"D", "o", "r", "m", "a", "n", "t", "s">>, <<"D", "o", "o", "r", "m", "a", "n", "'", "s">>>>,
       \* 'Dormans': "Doorman's"
       <<<<"D", "o", "r", "m", "a", "n", "s">>, <<"D", "o", "o", "r", "m", "a", "n", "'", "s">>>>,
       \* 'Dormands': "Doorman's"
       <<<<"D", "o", "r", "m", "a", "n", "d", "s">>, <<"D", "o", "o", "r", "m", "a", "n", "'", "s">>>>,
       \* 'Torment': 'Doorman'
       <<<<"T", "o", "r", "m", "e", "n", "t">>, <<"D", "o", "o", "r", "m", "a", "n">>>>,
       \* 'Torments': "Doorman's"
       <<<<"T", "o", "r", "m", "e", "n", "t", "s">>, <<"D", "o", "o", "r", "m", "a", "n", "'", "s">>>>,
       \* 'Dormammu': 'Doorman'
       <<<<"D", "o", "r", "m", "a", "m", "m", "u">>, <<"D", "o", "o", "r", "m", "a", "n">>>>,
       \* 'Grath': 'Graf'
       <<<<"G", "r", "a", "t", "h">>, <<"G", "r", "a", "f">>>>,
       \* 'Graph': 'Graf'
       <<<<"G", "r", "a", "p", "h">>, <<"G", "r", "a", "f">>>>,
       \* 'Graphs': "Graf's"
       <<<<"G", "r", "a", "p", "h", "s">>, <<"G", "r", "a", "f", "'", "s">>>>,
       \* 'Grafton': 'Graf'
       <<<<"G", "r", "a", "f", "t", "o", "n">>, <<"G", "r", "a", "f">>>>,
       \* 'Venera': 'Venator'
       <<<<"V", "e", "n", "e", "r", "a">>, <<"V", "e", "n", "a", "t", "o", "r">>>>,
       \* 'Venetus': 'Venator'
       <<<<"V", "e", "n", "e", "t", "u", "s">>, <<"V", "e", "n", "a", "t", "o", "r">>>>,
       \* 'Betterless': 'Venator'
       <<<<"B", "e", "t", "t", "e", "r", "l", "e", "s", "s">>, <<"V", "e", "n", "a", "t", "o", "r">>>>,
       \* 'Hayes': 'Haze'
       <<<<"H", "a", "y", "e", "s">>, <<"H", "a", "z", "e">>>>,
       \* 'Hace': 'Haze'
       <<<<"H", "a", "c", "e">>, <<"H", "a", "z", "e">>>>,
       \* 'Quill': 'Krill'
       <<<<"Q", "u", "i", "l", "l">>, <<"K", "r", "i", "l", "l">>>>,
       \* 'Quills': "Krill's"
       <<<<"Q", "u", "i", "l", "l", "s">>, <<"K", "r", "i", "l", "l", "'", "s">>>>,
       \* 'Grills': "Krill's"
       <<<<"G", "r", "i", "l", "l", "s">>, <<"K", "r", "i", "l", "l", "'", "s">>>>,
       \* 'Fatum': 'Fathom'
       <<<<"F", "a", "t", "u", "m">>, <<"F", "a", "t", "h", "o", "m">>>>,
       \* 'Rathom': 'Fathom'
       <<<<"R", "a", "t", "h", "o", "m">>, <<"F", "a", "t", "h", "o", "m">>>>,
       \* 'Clairborne': 'Sinclair'
       <<<<"C", "l", "a", "i", "r", "b", "o", "r", "n", "e">>, <<"S", "i", "n", "c", "l", "a", "i", "r">>>>,
       \* 'Hyvie': 'Ivy'
       <<<<"H", "y", "v", "i", "e">>, <<"I", "v", "y">>>>,
       \* 'Ivey': 'Ivy'
       <<<<"I", "v", "e", "y">>, <<"I", "v", "y">>>>,
       \* 'Ivies': "Ivy's"
       <<<<"I", "v", "i", "e", "s">>, <<"I", "v", "y", "'", "s">>>>,
       \* 'Wargon': 'Warden'
       <<<<"W", "a", "r", "g", "o", "n">>, <<"W", "a", "r", "d", "e", "n">>>>,
       \* 'Viscus': 'Viscous'
       <<<<"V", "i", "s", "c", "u", "s">>, <<"V", "i", "s", "c", "o", "u", "s">>>>,
       \* 'Stambiscus': 'Stun Viscous'
       <<<<"S", "t", "a", "m", "b", "i", "s", "c", "u", "s">>, <<"S", "t", "u", "n", " ", "V", "i", "s", "c", "o", "u", "s">>>>,
       \* 'Kelphin': 'Kelvin'
       <<<<"K", "e", "l", "p", "h", "i", "n">>, <<"K", "e", "l", "v", "i", "n">>>>,
       \* 'Kermin': 'Kelvin'
       <<<<"K", "e", "r", "m", "i", "n">>, <<"K", "e", "l", "v", "i", "n">>>>,
       \* 'McInnes': 'McGinnis'
       <<<<"M", "c", "I", "n", "n", "e", "s">>, <<"M", "c", "G", "i", "n", "n", "i", "s">>>>,
       \* 'McGuinness': 'McGinnis'
       <<<<"M", "c", "G", "u", "i", "n", "n", "e", "s", "s">>, <<"M", "c", "G", "i", "n", "n", "i", "s">>>>,
       \* 'Guinness': 'McGinnis'
       <<<<"G", "u", "i", "n", "n", "e", "s", "s">>, <<"M", "c", "G", "i", "n", "n", "i", "s">>>>,
       \* 'McKinnis': 'McGinnis'
       <<<<"M", "c", "K", "i", "n", "n", "i", "s">>, <<"M", "c", "G", "i", "n", "n", "i", "s">>>>,
       \* 'Talico': 'Calico'
       <<<<"T", "a", "l", "i", "c", "o">>, <<"C", "a", "l", "i", "c", "o">>>>,
       \* 'Gallico': 'Calico'
       <<<<"G", "a", "l", "l", "i", "c", "o">>, <<"C", "a", "l", "i", "c", "o">>>>,
       \* 'Colicle': 'Calico'
       <<<<"C", "o", "l", "i", "c", "l", "e">>, <<"C", "a", "l", "i", "c", "o">>>>,
       \* 'Pyke': 'Paige'
       <<<<"P", "y", "k", "e">>, <<"P", "a", "i", "g", "e">>>>,
       \* 'Victors': "Victor's"
       <<<<"V", "i", "c", "t", "o", "r", "s">>, <<"V", "i", "c", "t", "o", "r", "'", "s">>>>,
       \* 'Greytaran': 'Grey Talon'
       <<<<"G", "r", "e", "y", "t", "a", "r", "a", "n">>, <<"G", "r", "e", "y", " ", "T", "a", "l", "o", "n">>>>,
       \* 'Vindictus': 'Vindicta'
       <<<<"V", "i", "n", "d", "i", "c", "t", "u", "s">>, <<"V", "i", "n", "d", "i", "c", "t", "a">>>>,
       \* 'Vindicus': 'Vindicta'
       <<<<"V", "i", "n", "d", "i", "c", "u", "s">>, <<"V", "i", "n", "d", "i", "c", "t", "a">>>>,
       \* 'Invictus': 'Vindicta'
       <<<<"I", "n", "v", "i", "c", "t", "u", "s">>, <<"V", "i", "n", "d", "i", "c", "t", "a">>>>,
       \* 'Perdox': 'Paradox'
       <<<<"P", "e", "r", "d", "o", "x">>, <<"P", "a", "r", "a", "d", "o", "x">>>>,
       \* 'Peridox': 'Paradox'
       <<<<"P", "e", "r", "i", "d", "o", "x">>, <<"P", "a", "r", "a", "d", "o", "x">>>>,
       \* 'Pedidox': 'Paradox'
       <<<<"P", "e", "d", "i", "d", "o", "x">>, <<"P", "a", "r", "a", "d", "o", "x">>>>,
       \* 'Holladay': 'Holliday'
       <<<<"H", "o", "l", "l", "a", "d", "a", "y">>, <<"H", "o", "l", "l", "i", "d", "a", "y">>>>,
       \* 'Hollabase': "Holliday's"
       <<<<"H", "o", "l", "l", "a", "b", "a", "s", "e">>, <<"H", "o", "l", "l", "i", "d", "a", "y", "'", "s">>>>
    >>

\* Phrase pattern corrections, (pattern, replacement), in declaration order.
PHRASE_CORRECTIONS ==
    << \* (r'I can hear you\b', 'I can heal you')
       <<Cat(<<Lit(<<"I", " ", "c", "a", "n", " ", "h", "e", "a", "r", " ", "y", "o", "u">>), Wb>>), <<"I", " ", "c", "a", "n", " ", "h", "e", "a", "l", " ", "y", "o", "u">>>>,
       \* (r'I can hear ya\b', 'I can heal ya')
       <<Cat(<<Lit(<<"I", " ", "c", "a", "n", " ", "h", "e", "a", "r", " ", "y", "a">>), Wb>>), <<"I", " ", "c", "a", "n", " ", "h", "e", "a", "l", " ", "y", "a">>>>,
       \* (r'\bThey took our\b', 'They took out')
       <<Cat(<<Wb, Lit(<<"T", "h", "e", "y", " ", "t", "o", "o", "k", " ", "o", "u", "r">>), Wb>>), <<"T", "h", "e", "y", " ", "t", "o", "o", "k", " ", "o", "u", "t">>>>,
       \* (r'\bHe took out\b', 'They took out')
       <<Cat(<<Wb, Lit(<<"H", "e", " ", "t", "o", "o", "k", " ", "o", "u", "t">>), Wb>>), <<"T", "h", "e", "y", " ", "t", "o", "o", "k", " ", "o", "u", "t">>>>,
       \* (r'\bShe took out\b', 'They took out')
       <<Cat(<<Wb, Lit(<<"S", "h", "e", " ", "t", "o", "o", "k", " ", "o", "u", "t">>), Wb>>), <<"T", "h", "e", "y", " ", "t", "o", "o", "k", " ", "o", "u", "t">>>>,
       \* (r'\bIt took out\b', 'They took out')
       <<Cat(<<Wb, Lit(<<"I", "t", " ", "t", "o", "o", "k", " ", "o", "u", "t">>), Wb>>), <<"T", "h", "e", "y", " ", "t", "o", "o", "k", " ", "o", "u", "t">>>>,
       \* (r"Let's talk about\b", 'They took out')
       <<Cat(<<Lit(<<"L", "e", "t", "'", "s", " ", "t", "a", "l", "k", " ", "a", "b", "o", "u", "t">>), Wb>>), <<"T", "h", "e", "y", " ", "t", "o", "o", "k", " ", "o", "u", "t">>>>,
       \* (r'They forgot the\b', 'They took out the')
       <<Cat(<<Lit(<<"T", "h", "e", "y", " ", "f", "o", "r", "g", "o", "t", " ", "t", "h", "e">>), Wb>>), <<"T", "h", "e", "y", " ", "t", "o", "o", "k", " ", "o", "u", "t", " ", "t", "h", "e">>>>,
       \* (r"I'm a Jew, Yamato\b", "I'm with you, Yamato")
       <<Cat(<<Lit(<<"I", "'", "m", " ", "a", " ", "J", "e", "w", ",", " ", "Y", "a", "m", "a", "t", "o">>), Wb>>), <<"I", "'", "m", " ", "w", "i", "t", "h", " ", "y", "o", "u", ",", " ", "Y", "a", "m", "a", "t", "o">>>>,
       \* (r'How would you, Bebop\b', "I'm with you, Bebop")
       <<Cat(<<Lit(<<"H", "o", "w", " ", "w", "o", "u", "l", "d", " ", "y", "o", "u", ",", " ", "B", "e", "b", "o", "p">>), Wb>>), <<"I", "'", "m", " ", "w", "i", "t", "h", " ", "y", "o", "u", ",", " ", "B", "e", "b", "o", "p">>>>,
       \* (r'\bAssault Wrecker\b', 'I saw Wrecker')
       <<Cat(<<Wb, Lit(<<"A", "s", "s", "a", "u", "l", "t", " ", "W", "r", "e", "c", "k", "e", "r">>), Wb>>), <<"I", " ", "s", "a", "w", " ", "W", "r", "e", "c", "k", "e", "r">>>>,
       \* (r'\bAssault Lash\b', 'I saw Lash')
       <<Cat(<<Wb, Lit(<<"A", "s", "s", "a", "u", "l", "t", " ", "L", "a", "s", "h">>), Wb>>), <<"I", " ", "s", "a", "w", " ", "L", "a", "s", "h">>>>,
       \* (r'\bAssault Kelvin\b', 'I saw Kelvin')
       <<Cat(<<Wb, Lit(<<"A", "s", "s", "a", "u", "l", "t", " ", "K", "e", "l", "v", "i", "n">>), Wb>>), <<"I", " ", "s", "a", "w", " ", "K", "e", "l", "v", "i", "n">>>>,
       \* (r'\bAssault Mirage\b', 'I saw Mirage')
       <<Cat(<<Wb, Lit(<<"A", "s", "s", "a", "u", "l", "t", " ", "M", "i", "r", "a", "g", "e">>), Wb>>), <<"I", " ", "s", "a", "w", " ", "M", "i", "r", "a", "g", "e">>>>,
       \* (r'\bAssault Krill\b', 'I saw Krill')
       <<Cat(<<Wb, Lit(<<"A", "s", "s", "a", "u", "l", "t", " ", "K", "r", "i", "l", "l">>), Wb>>), <<"I", " ", "s", "a", "w", " ", "K", "r", "i", "l", "l">>>>,
       \* (r'\bAssault Doorman\b', 'I saw Doorman')
       <<Cat(<<Wb, Lit(<<"A", "s", "s", "a", "u", "l", "t", " ", "D", "o", "o", "r", "m", "a", "n">>), Wb>>), <<"I", " ", "s", "a", "w", " ", "D", "o", "o", "r", "m", "a", "n">>>>,
       \* (r'\bAssault Bebop\b', 'I saw Bebop')
       <<Cat(<<Wb, Lit(<<"A", "s", "s", "a", "u", "l", "t", " ", "B", "e", "b", "o", "p">>), Wb>>), <<"I", " ", "s", "a", "w", " ", "B", "e", "b", "o", "p">>>>,
       \* (r'\bAssault Punkgoat\b', 'I saw Billy')
       <<Cat(<<Wb, Lit(<<"A", "s", "s", "a", "u", "l", "t", " ", "P", "u", "n", "k", "g", "o", "a", "t">>), Wb>>), <<"I", " ", "s", "a", "w", " ", "B", "i", "l", "l", "y">>>>,
       \* (r'\bAssault Drifter\b', 'I saw Drifter')
       <<Cat(<<Wb, Lit(<<"A", "s", "s", "a", "u", "l", "t", " ", "D", "r", "i", "f", "t", "e", "r">>), Wb>>), <<"I", " ", "s", "a", "w", " ", "D", "r", "i", "f", "t", "e", "r">>>>,
       \* (r'\bAssault Hornet\b', 'I saw Vindicta')
       <<Cat(<<Wb, Lit(<<"A", "s", "s", "a", "u", "l", "t", " ", "H", "o", "r", "n", "e", "t">>), Wb>>), <<"I", " ", "s", "a", "w", " ", "V", "i", "n", "d", "i", "c", "t", "a">>>>,
       \* (r'\bAssault Tengu\b', 'I saw Ivy')
       <<Cat(<<Wb, Lit(<<"A", "s", "s", "a", "u", "l", "t", " ", "T", "e", "n", "g", "u">>), Wb>>), <<"I", " ", "s", "a", "w", " ", "I", "v", "y">>>>,
       \* (r'\bAssault Cadence\b', 'I saw Cadence')
       <<Cat(<<Wb, Lit(<<"A", "s", "s", "a", "u", "l", "t", " ", "C", "a", "d", "e", "n", "c", "e">>), Wb>>), <<"I", " ", "s", "a", "w", " ", "C", "a", "d", "e", "n", "c", "e">>>>,
       \* (r'A siggraph\b', 'I see Graf')
       <<Cat(<<Lit(<<"A", " ", "s", "i", "g", "g", "r", "a", "p", "h">>), Wb>>), <<"I", " ", "s", "e", "e", " ", "G", "r", "a", "f">>>>,
       \* (r'Decode Seven\b', 'They killed Seven')
       <<Cat(<<Lit(<<"D", "e", "c", "o", "d", "e", " ", "S", "e", "v", "e", "n">>), Wb>>), <<"T", "h", "e", "y", " ", "k", "i", "l", "l", "e", "d", " ", "S", "e", "v", "e", "n">>>>,
       \* (r'\bAnd took out\b', 'They took out')
       <<Cat(<<Wb, Lit(<<"A", "n", "d", " ", "t", "o", "o", "k", " ", "o", "u", "t">>), Wb>>), <<"T", "h", "e", "y", " ", "t", "o", "o", "k", " ", "o", "u", "t">>>>,
       \* (r'what (\w+) brought\b', 'what \1 bought')
       <<Cat(<<Lit(<<"w", "h", "a", "t", " ">>), Grp(Plus(Word)), Lit(<<" ", "b", "r", "o", "u", "g", "h", "t">>), Wb>>), <<"w", "h", "a", "t", " ", "\\1", " ", "b", "o", "u", "g", "h", "t">>>>,
       \* (r'Check out our PageBot\b', 'Check out what Paige bought')
       <<Cat(<<Lit(<<"C", "h", "e", "c", "k", " ", "o", "u", "t", " ", "o", "u", "r", " ", "P", "a", "g", "e", "B", "o", "t">>), Wb>>), <<"C", "h", "e", "c", "k", " ", "o", "u", "t", " ", "w", "h", "a", "t", " ", "P", "a", "i", "g", "e", " ", "b", "o", "u", "g", "h", "t">>>>,
       \* (r"Check out McGinnis' board\b", 'Check out what McGinnis bought')
       <<Cat(<<Lit(<<"C", "h", "e", "c", "k", " ", "o", "u", "t", " ", "M", "c", "G", "i", "n", "n", "i", "s", "'", " ", "b", "o", "a", "r", "d">>), Wb>>), <<"C", "h", "e", "c", "k", " ", "o", "u", "t", " ", "w", "h", "a", "t", " ", "M", "c", "G", "i", "n", "n", "i", "s", " ", "b", "o", "u", "g", "h", "t">>>>,
       \* (r"Check out what's 7-Ball\b", 'Check out what Seven bought')
       <<Cat(<<Lit(<<"C", "h", "e", "c", "k", " ", "o", "u", "t", " ", "w", "h", "a", "t", "'", "s", " ", "7", "-", "B", "a", "l", "l">>), Wb>>), <<"C", "h", "e", "c", "k", " ", "o", "u", "t", " ", "w", "h", "a", "t", " ", "S", "e", "v", "e", "n", " ", "b", "o", "u", "g", "h", "t">>>>,
       \* (r"Check out what's in Clairborne\b", 'Check out what Sinclair bought')
       <<Cat(<<Lit(<<"C", "h", "e", "c", "k", " ", "o", "u", "t", " ", "w", "h", "a", "t", "'", "s", " ", "i", "n", " ", "C", "l", "a", "i", "r", "b", "o", "r", "n", "e">>), Wb>>), <<"C", "h", "e", "c", "k", " ", "o", "u", "t", " ", "w", "h", "a", "t", " ", "S", "i", "n", "c", "l", "a", "i", "r", " ", "b", "o", "u", "g", "h", "t">>>>,
       \* (r'Check out Krillbot\b', 'Check out what Krill bought')
       <<Cat(<<Lit(<<"C", "h", "e", "c", "k", " ", "o", "u", "t", " ", "K", "r", "i", "l", "l", "b", "o", "t">>), Wb>>), <<"C", "h", "e", "c", "k", " ", "o", "u", "t", " ", "w", "h", "a", "t", " ", "K", "r", "i", "l", "l", " ", "b", "o", "u", "g", "h", "t">>>>,
       \* (r'Check out Aminabot\b', 'Check out what Mina bought')
       <<Cat(<<Lit(<<"C", "h", "e", "c", "k", " ", "o", "u", "t", " ", "A", "m", "i", "n", "a", "b", "o", "t">>), Wb>>), <<"C", "h", "e", "c", "k", " ", "o", "u", "t", " ", "w", "h", "a", "t", " ", "M", "i", "n", "a", " ", "b", "o", "u", "g", "h", "t">>>>,
       \* (r'Check out what I re-bought\b', 'Check out what Ivy bought')
       <<Cat(<<Lit(<<"C", "h", "e", "c", "k", " ", "o", "u", "t", " ", "w", "h", "a", "t", " ", "I", " ", "r", "e", "-", "b", "o", "u", "g", "h", "t">>), Wb>>), <<"C", "h", "e", "c", "k", " ", "o", "u", "t", " ", "w", "h", "a", "t", " ", "I", "v", "y", " ", "b", "o", "u", "g", "h", "t">>>>,
       \* (r'Check out WarWraith Bar\b', 'Check out what Wraith bought')
       <<Cat(<<Lit(<<"C", "h", "e", "c", "k", " ", "o", "u", "t", " ", "W", "a", "r", "W", "r", "a", "i", "t", "h", " ", "B", "a", "r">>), Wb>>), <<"C", "h", "e", "c", "k", " ", "o", "u", "t", " ", "w", "h", "a", "t", " ", "W", "r", "a", "i", "t", "h", " ", "b", "o", "u", "g", "h", "t">>>>,
       \* (r"Let's take our graph\b", "Let's take out Graf")
       <<Cat(<<Lit(<<"L", "e", "t", "'", "s", " ", "t", "a", "k", "e", " ", "o", "u", "r", " ", "g", "r", "a", "p", "h">>), Wb>>), <<"L", "e", "t", "'", "s", " ", "t", "a", "k", "e", " ", "o", "u", "t", " ", "G", "r", "a", "f">>>>,
       \* (r"Let's take our Graf\b", "Let's take out Graf")
       <<Cat(<<Lit(<<"L", "e", "t", "'", "s", " ", "t", "a", "k", "e", " ", "o", "u", "r", " ", "G", "r", "a", "f">>), Wb>>), <<"L", "e", "t", "'", "s", " ", "t", "a", "k", "e", " ", "o", "u", "t", " ", "G", "r", "a", "f">>>>,
       \* (r'Stone Viscous\b', 'Stun Viscous')
       <<Cat(<<Lit(<<"S", "t", "o", "n", "e", " ", "V", "i", "s", "c", "o", "u", "s">>), Wb>>), <<"S", "t", "u", "n", " ", "V", "i", "s", "c", "o", "u", "s">>>>,
       \* (r'Stone viscous\b', 'Stun Viscous')
       <<Cat(<<Lit(<<"S", "t", "o", "n", "e", " ", "v", "i", "s", "c", "o", "u", "s">>), Wb>>), <<"S", "t", "u", "n", " ", "V", "i", "s", "c", "o", "u", "s">>>>,
       \* (r'Stone Page\b', 'Stun Paige')
       <<Cat(<<Lit(<<"S", "t", "o", "n", "e", " ", "P", "a", "g", "e">>), Wb>>), <<"S", "t", "u", "n", " ", "P", "a", "i", "g", "e">>>>,
       \* (r'Stone Dynamo\b', 'Stun Dynamo')
       <<Cat(<<Lit(<<"S", "t", "o", "n", "e", " ", "D", "y", "n", "a", "m", "o">>), Wb>>), <<"S", "t", "u", "n", " ", "D", "y", "n", "a", "m", "o">>>>,
       \* (r'Stone Geist\b', 'Stun Geist')
       <<Cat(<<Lit(<<"S", "t", "o", "n", "e", " ", "G", "e", "i", "s", "t">>), Wb>>), <<"S", "t", "u", "n", " ", "G", "e", "i", "s", "t">>>>,
       \* (r'Stone Abrams\b', 'Stun Abrams')
       <<Cat(<<Lit(<<"S", "t", "o", "n", "e", " ", "A", "b", "r", "a", "m", "s">>), Wb>>), <<"S", "t", "u", "n", " ", "A", "b", "r", "a", "m", "s">>>>,
       \* (r'Stone Mirage\b', 'Stun Mirage')
       <<Cat(<<Lit(<<"S", "t", "o", "n", "e", " ", "M", "i", "r", "a", "g", "e">>), Wb>>), <<"S", "t", "u", "n", " ", "M", "i", "r", "a", "g", "e">>>>,
       \* (r'Stone Grey Talon\b', 'Stun Grey Talon')
       <<Cat(<<Lit(<<"S", "t", "o", "n", "e", " ", "G", "r", "e", "y", " ", "T", "a", "l", "o", "n">>), Wb>>), <<"S", "t", "u", "n", " ", "G", "r", "e", "y", " ", "T", "a", "l", "o", "n">>>>,
       \* (r'Stone Grey Calon\b', 'Stun Grey Talon')
       <<Cat(<<Lit(<<"S", "t", "o", "n", "e", " ", "G", "r", "e", "y", " ", "C", "a", "l", "o", "n">>), Wb>>), <<"S", "t", "u", "n", " ", "G", "r", "e", "y", " ", "T", "a", "l", "o", "n">>>>,
       \* (r'Stone Shiv\b', 'Stun Shiv')
       <<Cat(<<Lit(<<"S", "t", "o", "n", "e", " ", "S", "h", "i", "v">>), Wb>>), <<"S", "t", "u", "n", " ", "S", "h", "i", "v">>>>,
       \* (r'Stone Cadence\b', 'Stun Cadence')
       <<Cat(<<Lit(<<"S", "t", "o", "n", "e", " ", "C", "a", "d", "e", "n", "c", "e">>), Wb>>), <<"S", "t", "u", "n", " ", "C", "a", "d", "e", "n", "c", "e">>>>,
       \* (r'Stone Paradox\b', 'Stun Paradox')
       <<Cat(<<Lit(<<"S", "t", "o", "n", "e", " ", "P", "a", "r", "a", "d", "o", "x">>), Wb>>), <<"S", "t", "u", "n", " ", "P", "a", "r", "a", "d", "o", "x">>>>,
       \* (r'Stone Krill\b', 'Stun Krill')
       <<Cat(<<Lit(<<"S", "t", "o", "n", "e", " ", "K", "r", "i", "l", "l">>), Wb>>), <<"S", "t", "u", "n", " ", "K", "r", "i", "l", "l">>>>,
       \* (r'Stone callie\b', 'Stun Calico')
       <<Cat(<<Lit(<<"S", "t", "o", "n", "e", " ", "c", "a", "l", "l", "i", "e">>), Wb>>), <<"S", "t", "u", "n", " ", "C", "a", "l", "i", "c", "o">>>>,
       \* (r'Stone Kelvin\b', 'Stun Kelvin')
       <<Cat(<<Lit(<<"S", "t", "o", "n", "e", " ", "K", "e", "l", "v", "i", "n">>), Wb>>), <<"S", "t", "u", "n", " ", "K", "e", "l", "v", "i", "n">>>>,
       \* (r'Stone raven\b', 'Stun Raven')
       <<Cat(<<Lit(<<"S", "t", "o", "n", "e", " ", "r", "a", "v", "e", "n">>), Wb>>), <<"S", "t", "u", "n", " ", "R", "a", "v", "e", "n">>>>,
       \* (r'Stone Raven\b', 'Stun Raven')
       <<Cat(<<Lit(<<"S", "t", "o", "n", "e", " ", "R", "a", "v", "e", "n">>), Wb>>), <<"S", "t", "u", "n", " ", "R", "a", "v", "e", "n">>>>,
       \* (r'Stone Gallico\b', 'Stun Calico')
       <<Cat(<<Lit(<<"S", "t", "o", "n", "e", " ", "G", "a", "l", "l", "i", "c", "o">>), Wb>>), <<"S", "t", "u", "n", " ", "C", "a", "l", "i", "c", "o">>>>,
       \* (r'Stone the Guinness\b', 'Stun McGinnis')
       <<Cat(<<Lit(<<"S", "t", "o", "n", "e", " ", "t", "h", "e", " ", "G", "u", "i", "n", "n", "e", "s", "s">>), Wb>>), <<"S", "t", "u", "n", " ", "M", "c", "G", "i", "n", "n", "i", "s">>>>,
       \* (r'Stone wraith\b', 'Stun Wraith')
       <<Cat(<<Lit(<<"S", "t", "o", "n", "e", " ", "w", "r", "a", "i", "t", "h">>), Wb>>), <<"S", "t", "u", "n", " ", "W", "r", "a", "i", "t", "h">>>>,
       \* (r'Stone Wraith\b', 'Stun Wraith')
       <<Cat(<<Lit(<<"S", "t", "o", "n", "e", " ", "W", "r", "a", "i", "t", "h">>), Wb>>), <<"S", "t", "u", "n", " ", "W", "r", "a", "i", "t", "h">>>>,
       \* (r'Stone Ivy\b', 'Stun Ivy')
       <<Cat(<<Lit(<<"S", "t", "o", "n", "e", " ", "I", "v", "y">>), Wb>>), <<"S", "t", "u", "n", " ", "I", "v", "y">>>>,
       \* (r'Stone ivy\b', 'Stun Ivy')
       <<Cat(<<Lit(<<"S", "t", "o", "n", "e", " ", "i", "v", "y">>), Wb>>), <<"S", "t", "u", "n", " ", "I", "v", "y">>>>,
       \* (r'Stone pocket\b', 'Stun Pocket')
       <<Cat(<<Lit(<<"S", "t", "o", "n", "e", " ", "p", "o", "c", "k", "e", "t">>), Wb>>), <<"S", "t", "u", "n", " ", "P", "o", "c", "k", "e", "t">>>>,
       \* (r'Stone Pocket\b', 'Stun Pocket')
       <<Cat(<<Lit(<<"S", "t", "o", "n", "e", " ", "P", "o", "c", "k", "e", "t">>), Wb>>), <<"S", "t", "u", "n", " ", "P", "o", "c", "k", "e", "t">>>>,
       \* (r'Stone Vyper\b', 'Stun Vyper')
       <<Cat(<<Lit(<<"S", "t", "o", "n", "e", " ", "V", "y", "p", "e", "r">>), Wb>>), <<"S", "t", "u", "n", " ", "V", "y", "p", "e", "r">>>>,
       \* (r'Stone the Hyvie\b', 'Stun Ivy')
       <<Cat(<<Lit(<<"S", "t", "o", "n", "e", " ", "t", "h", "e", " ", "H", "y", "v", "i", "e">>), Wb>>), <<"S", "t", "u", "n", " ", "I", "v", "y">>>>,
       \* (r'Stone Vindicta\b', 'Stun Vindicta')
       <<Cat(<<Lit(<<"S", "t", "o", "n", "e", " ", "V", "i", "n", "d", "i", "c", "t", "a">>), Wb>>), <<"S", "t", "u", "n", " ", "V", "i", "n", "d", "i", "c", "t", "a">>>>,
       \* (r'Stone Fathom\b', 'Stun Fathom')
       <<Cat(<<Lit(<<"S", "t", "o", "n", "e", " ", "F", "a", "t", "h", "o", "m">>), Wb>>), <<"S", "t", "u", "n", " ", "F", "a", "t", "h", "o", "m">>>>,
       \* (r'Stone Lash\b', 'Stun Lash')
       <<Cat(<<Lit(<<"S", "t", "o", "n", "e", " ", "L", "a", "s", "h">>), Wb>>), <<"S", "t", "u", "n", " ", "L", "a", "s", "h">>>>,
       \* (r'Stone Lush\b', 'Stun Lash')
       <<Cat(<<Lit(<<"S", "t", "o", "n", "e", " ", "L", "u", "s", "h">>), Wb>>), <<"S", "t", "u", "n", " ", "L", "a", "s", "h">>>>,
       \* (r'Stone Bebop\b', 'Stun Bebop')
       <<Cat(<<Lit(<<"S", "t", "o", "n", "e", " ", "B", "e", "b", "o", "p">>), Wb>>), <<"S", "t", "u", "n", " ", "B", "e", "b", "o", "p">>>>,
       \* (r'Stone the record\b', 'Stun Wrecker')
       <<Cat(<<Lit(<<"S", "t", "o", "n", "e", " ", "t", "h", "e", " ", "r", "e", "c", "o", "r", "d">>), Wb>>), <<"S", "t", "u", "n", " ", "W", "r", "e", "c", "k", "e", "r">>>>,
       \* (r'Stone yamato\b', 'Stun Yamato')
       <<Cat(<<Lit(<<"S", "t", "o", "n", "e", " ", "y", "a", "m", "a", "t", "o">>), Wb>>), <<"S", "t", "u", "n", " ", "Y", "a", "m", "a", "t", "o">>>>,
       \* (r'Stone Yamato\b', 'Stun Yamato')
       <<Cat(<<Lit(<<"S", "t", "o", "n", "e", " ", "Y", "a", "m", "a", "t", "o">>), Wb>>), <<"S", "t", "u", "n", " ", "Y", "a", "m", "a", "t", "o">>>>,
       \* (r'Stone victor\b', 'Stun Victor')
       <<Cat(<<Lit(<<"S", "t", "o", "n", "e", " ", "v", "i", "c", "t", "o", "r">>), Wb>>), <<"S", "t", "u", "n", " ", "V", "i", "c", "t", "o", "r">>>>,
       \* (r'Stan Viscous\b', 'Stun Viscous')
       <<Cat(<<Lit(<<"S", "t", "a", "n", " ", "V", "i", "s", "c", "o", "u", "s">>), Wb>>), <<"S", "t", "u", "n", " ", "V", "i", "s", "c", "o", "u", "s">>>>,
       \* (r'Stan busy\b', 'Stun Billy')
       <<Cat(<<Lit(<<"S", "t", "a", "n", " ", "b", "u", "s", "y">>), Wb>>), <<"S", "t", "u", "n", " ", "B", "i", "l", "l", "y">>>>,
       \* (r'Stan Seven\b', 'Stun Seven')
       <<Cat(<<Lit(<<"S", "t", "a", "n", " ", "S", "e", "v", "e", "n">>), Wb>>), <<"S", "t", "u", "n", " ", "S", "e", "v", "e", "n">>>>,
       \* (r'\bStamina\b', 'Stun Mina')
       <<Cat(<<Wb, Lit(<<"S", "t", "a", "m", "i", "n", "a">>), Wb>>), <<"S", "t", "u", "n", " ", "M", "i", "n", "a">>>>,
       \* (r'Stanyamato\b', 'Stun Yamato')
       <<Cat(<<Lit(<<"S", "t", "a", "n", "y", "a", "m", "a", "t", "o">>), Wb>>), <<"S", "t", "u", "n", " ", "Y", "a", "m", "a", "t", "o">>>>,
       \* (r'Stormwrecker\b', 'Stun Wrecker')
       <<Cat(<<Lit(<<"S", "t", "o", "r", "m", "w", "r", "e", "c", "k", "e", "r">>), Wb>>), <<"S", "t", "u", "n", " ", "W", "r", "e", "c", "k", "e", "r">>>>,
       \* (r'Stonewraith\b', 'Stun Wraith')
       <<Cat(<<Lit(<<"S", "t", "o", "n", "e", "w", "r", "a", "i", "t", "h">>), Wb>>), <<"S", "t", "u", "n", " ", "W", "r", "a", "i", "t", "h">>>>,
       \* (r'Sunwraith\b', 'Stun Wraith')
       <<Cat(<<Lit(<<"S", "u", "n", "w", "r", "a", "i", "t", "h">>), Wb>>), <<"S", "t", "u", "n", " ", "W", "r", "a", "i", "t", "h">>>>,
       \* (r'Stun and Furnace\b', 'Stun Infernus')
       <<Cat(<<Lit(<<"S", "t", "u", "n", " ", "a", "n", "d", " ", "F", "u", "r", "n", "a", "c", "e">>), Wb>>), <<"S", "t", "u", "n", " ", "I", "n", "f", "e", "r", "n", "u", "s">>>>,
       \* (r'Stun in furnace\b', 'Stun Infernus')
       <<Cat(<<Lit(<<"S", "t", "u", "n", " ", "i", "n", " ", "f", "u", "r", "n", "a", "c", "e">>), Wb>>), <<"S", "t", "u", "n", " ", "I", "n", "f", "e", "r", "n", "u", "s">>>>,
       \* (r'Stun in Furnace\b', 'Stun Infernus')
       <<Cat(<<Lit(<<"S", "t", "u", "n", " ", "i", "n", " ", "F", "u", "r", "n", "a", "c", "e">>), Wb>>), <<"S", "t", "u", "n", " ", "I", "n", "f", "e", "r", "n", "u", "s">>>>,
       \* (r'Stun your eyes\b', 'Stun Mirage')
       <<Cat(<<Lit(<<"S", "t", "u", "n", " ", "y", "o", "u", "r", " ", "e", "y", "e", "s">>), Wb>>), <<"S", "t", "u", "n", " ", "M", "i", "r", "a", "g", "e">>>>,
       \* (r'Stun great talent\b', 'Stun Grey Talon')
       <<Cat(<<Lit(<<"S", "t", "u", "n", " ", "g", "r", "e", "a", "t", " ", "t", "a", "l", "e", "n", "t">>), Wb>>), <<"S", "t", "u", "n", " ", "G", "r", "e", "y", " ", "T", "a", "l", "o", "n">>>>,
       \* (r'Stun great talon\b', 'Stun Grey Talon')
       <<Cat(<<Lit(<<"S", "t", "u", "n", " ", "g", "r", "e", "a", "t", " ", "t", "a", "l", "o", "n">>), Wb>>), <<"S", "t", "u", "n", " ", "G", "r", "e", "y", " ", "T", "a", "l", "o", "n">>>>,
       \* (r'Stun holiday\b', 'Stun Holliday')
       <<Cat(<<Lit(<<"S", "t", "u", "n", " ", "h", "o", "l", "i", "d", "a", "y">>), Wb>>), <<"S", "t", "u", "n", " ", "H", "o", "l", "l", "i", "d", "a", "y">>>>,
       \* (r'Stun Holiday\b', 'Stun Holliday')
       <<Cat(<<Lit(<<"S", "t", "u", "n", " ", "H", "o", "l", "i", "d", "a", "y">>), Wb>>), <<"S", "t", "u", "n", " ", "H", "o", "l", "l", "i", "d", "a", "y">>>>,
       \* (r'Stun killed\b', 'Stun Kelvin')
       <<Cat(<<Lit(<<"S", "t", "u", "n", " ", "k", "i", "l", "l", "e", "d">>), Wb>>), <<"S", "t", "u", "n", " ", "K", "e", "l", "v", "i", "n">>>>,
       \* (r'Stun grill\b', 'Stun Krill')
       <<Cat(<<Lit(<<"S", "t", "u", "n", " ", "g", "r", "i", "l", "l">>), Wb>>), <<"S", "t", "u", "n", " ", "K", "r", "i", "l", "l">>>>,
       \* (r'Stun recker\b', 'Stun Wrecker')
       <<Cat(<<Lit(<<"S", "t", "u", "n", " ", "r", "e", "c", "k", "e", "r">>), Wb>>), <<"S", "t", "u", "n", " ", "W", "r", "e", "c", "k", "e", "r">>>>,
       \* (r'Stun quill\b', 'Stun Krill')
       <<Cat(<<Lit(<<"S", "t", "u", "n", " ", "q", "u", "i", "l", "l">>), Wb>>), <<"S", "t", "u", "n", " ", "K", "r", "i", "l", "l">>>>,
       \* (r'Stun dorman\b', 'Stun Doorman')
       <<Cat(<<Lit(<<"S", "t", "u", "n", " ", "d", "o", "r", "m", "a", "n">>), Wb>>), <<"S", "t", "u", "n", " ", "D", "o", "o", "r", "m", "a", "n">>>>,
       \* (r'Stun hayes\b', 'Stun Haze')
       <<Cat(<<Lit(<<"S", "t", "u", "n", " ", "h", "a", "y", "e", "s">>), Wb>>), <<"S", "t", "u", "n", " ", "H", "a", "z", "e">>>>,
       \* (r'Stun taco\b', 'Stun Calico')
       <<Cat(<<Lit(<<"S", "t", "u", "n", " ", "t", "a", "c", "o">>), Wb>>), <<"S", "t", "u", "n", " ", "C", "a", "l", "i", "c", "o">>>>,
       \* (r'Stun meta\b', 'Stun Mina')
       <<Cat(<<Lit(<<"S", "t", "u", "n", " ", "m", "e", "t", "a">>), Wb>>), <<"S", "t", "u", "n", " ", "M", "i", "n", "a">>>>,
       \* (r'\bStun Raid\b', 'Stun Wraith')
       <<Cat(<<Wb, Lit(<<"S", "t", "u", "n", " ", "R", "a", "i", "d">>), Wb>>), <<"S", "t", "u", "n", " ", "W", "r", "a", "i", "t", "h">>>>,
       \* (r'\bStun race\b', 'Stun Wraith')
       <<Cat(<<Wb, Lit(<<"S", "t", "u", "n", " ", "r", "a", "c", "e">>), Wb>>), <<"S", "t", "u", "n", " ", "W", "r", "a", "i", "t", "h">>>>,
       \* (r'\bStun Race\b', 'Stun Wraith')
       <<Cat(<<Wb, Lit(<<"S", "t", "u", "n", " ", "R", "a", "c", "e">>), Wb>>), <<"S", "t", "u", "n", " ", "W", "r", "a", "i", "t", "h">>>>,
       \* (r'\bIgnore Raid\b', 'Ignore Wraith')
       <<Cat(<<Wb, Lit(<<"I", "g", "n", "o", "r", "e", " ", "R", "a", "i", "d">>), Wb>>), <<"I", "g", "n", "o", "r", "e", " ", "W", "r", "a", "i", "t", "h">>>>,
       \* (r'\bIgnore race\b', 'Ignore Wraith')
       <<Cat(<<Wb, Lit(<<"I", "g", "n", "o", "r", "e", " ", "r", "a", "c", "e">>), Wb>>), <<"I", "g", "n", "o", "r", "e", " ", "W", "r", "a", "i", "t", "h">>>>,
       \* (r'under da garage\b', 'under the garage')
       <<Cat(<<Lit(<<"u", "n", "d", "e", "r", " ", "d", "a", " ", "g", "a", "r", "a", "g", "e">>), Wb>>), <<"u", "n", "d", "e", "r", " ", "t", "h", "e", " ", "g", "a", "r", "a", "g", "e">>>>,
       \* (r'on the breach\b', 'on the bridge')
       <<Cat(<<Lit(<<"o", "n", " ", "t", "h", "e", " ", "b", "r", "e", "a", "c", "h">>), Wb>>), <<"o", "n", " ", "t", "h", "e", " ", "b", "r", "i", "d", "g", "e">>>>,
       \* (r'Rates on mid\b', "Wraith's in mid")
       <<Cat(<<Lit(<<"R", "a", "t", "e", "s", " ", "o", "n", " ", "m", "i", "d">>), Wb>>), <<"W", "r", "a", "i", "t", "h", "'", "s", " ", "i", "n", " ", "m", "i", "d">>>>,
       \* (r'Rates on top of mid\b', "Wraith's on top of mid")
       <<Cat(<<Lit(<<"R", "a", "t", "e", "s", " ", "o", "n", " ", "t", "o", "p", " ", "o", "f", " ", "m", "i", "d">>), Wb>>), <<"W", "r", "a", "i", "t", "h", "'", "s", " ", "o", "n", " ", "t", "o", "p", " ", "o", "f", " ", "m", "i", "d">>>>,
       \* (r"Rates on top o' the garage\b", "Wraith's on top of the garage")
       <<Cat(<<Lit(<<"R", "a", "t", "e", "s", " ", "o", "n", " ", "t", "o", "p", " ", "o", "'", " ", "t", "h", "e", " ", "g", "a", "r", "a", "g", "e">>), Wb>>), <<"W", "r", "a", "i", "t", "h", "'", "s", " ", "o", "n", " ", "t", "o", "p", " ", "o", "f", " ", "t", "h", "e", " ", "g", "a", "r", "a", "g", "e">>>>,
       \* (r'Rates under the garage\b', "Wraith's under the garage")
       <<Cat(<<Lit(<<"R", "a", "t", "e", "s", " ", "u", "n", "d", "e", "r", " ", "t", "h", "e", " ", "g", "a", "r", "a", "g", "e">>), Wb>>), <<"W", "r", "a", "i", "t", "h", "'", "s", " ", "u", "n", "d", "e", "r", " ", "t", "h", "e", " ", "g", "a", "r", "a", "g", "e">>>>,
       \* (r'Rate is missing\b', 'Wraith is missing')
       <<Cat(<<Lit(<<"R", "a", "t", "e", " ", "i", "s", " ", "m", "i", "s", "s", "i", "n", "g">>), Wb>>), <<"W", "r", "a", "i", "t", "h", " ", "i", "s", " ", "m", "i", "s", "s", "i", "n", "g">>>>,
       \* (r'Race in mid\b', "Wraith's in mid")
       <<Cat(<<Lit(<<"R", "a", "c", "e", " ", "i", "n", " ", "m", "i", "d">>), Wb>>), <<"W", "r", "a", "i", "t", "h", "'", "s", " ", "i", "n", " ", "m", "i", "d">>>>,
       \* (r'Race under the garage\b', "Wraith's under the garage")
       <<Cat(<<Lit(<<"R", "a", "c", "e", " ", "u", "n", "d", "e", "r", " ", "t", "h", "e", " ", "g", "a", "r", "a", "g", "e">>), Wb>>), <<"W", "r", "a", "i", "t", "h", "'", "s", " ", "u", "n", "d", "e", "r", " ", "t", "h", "e", " ", "g", "a", "r", "a", "g", "e">>>>,
       \* (r'Raids on the roof\b', "Wraith's on the roof")
       <<Cat(<<Lit(<<"R", "a", "i", "d", "s", " ", "o", "n", " ", "t", "h", "e", " ", "r", "o", "o", "f">>), Wb>>), <<"W", "r", "a", "i", "t", "h", "'", "s", " ", "o", "n", " ", "t", "h", "e", " ", "r", "o", "o", "f">>>>,
       \* (r'Graphs missing\b', "Graf's missing")
       <<Cat(<<Lit(<<"G", "r", "a", "p", "h", "s", " ", "m", "i", "s", "s", "i", "n", "g">>), Wb>>), <<"G", "r", "a", "f", "'", "s", " ", "m", "i", "s", "s", "i", "n", "g">>>>,
       \* (r'Graphs Missing\b', "Graf's Missing")
       <<Cat(<<Lit(<<"G", "r", "a", "p", "h", "s", " ", "M", "i", "s", "s", "i", "n", "g">>), Wb>>), <<"G", "r", "a", "f", "'", "s", " ", "M", "i", "s", "s", "i", "n", "g">>>>,
       \* (r'I see Grath\b', 'I see Graf')
       <<Cat(<<Lit(<<"I", " ", "s", "e", "e", " ", "G", "r", "a", "t", "h">>), Wb>>), <<"I", " ", "s", "e", "e", " ", "G", "r", "a", "f">>>>,
       \* (r'Careful Graph\b', 'Careful, Graf')
       <<Cat(<<Lit(<<"C", "a", "r", "e", "f", "u", "l", " ", "G", "r", "a", "p", "h">>), Wb>>), <<"C", "a", "r", "e", "f", "u", "l", ",", " ", "G", "r", "a", "f">>>>,
       \* (r"Dorman's on top of the garage\b", "Doorman's on top of the garage")
       <<Cat(<<Lit(<<"D", "o", "r", "m", "a", "n", "'", "s", " ", "o", "n", " ", "t", "o", "p", " ", "o", "f", " ", "t", "h", "e", " ", "g", "a", "r", "a", "g", "e">>), Wb>>), <<"D", "o", "o", "r", "m", "a", "n", "'", "s", " ", "o", "n", " ", "t", "o", "p", " ", "o", "f", " ", "t", "h", "e", " ", "g", "a", "r", "a", "g", "e">>>>,
       \* (r'The Dormant on top of Mid\b', "The Doorman's on top of Mid")
       <<Cat(<<Lit(<<"T", "h", "e", " ", "D", "o", "r", "m", "a", "n", "t", " ", "o", "n", " ", "t", "o", "p", " ", "o", "f", " ", "M", "i", "d">>), Wb>>), <<"T", "h", "e", " ", "D", "o", "o", "r", "m", "a", "n", "'", "s", " ", "o", "n", " ", "t", "o", "p", " ", "o", "f", " ", "M", "i", "d">>>>,
       \* (r'Torments Under the Garage\b', "Doorman's under the Garage")
       <<Cat(<<Lit(<<"T", "o", "r", "m", "e", "n", "t", "s", " ", "U", "n", "d", "e", "r", " ", "t", "h", "e", " ", "G", "a", "r", "a", "g", "e">>), Wb>>), <<"D", "o", "o", "r", "m", "a", "n", "'", "s", " ", "u", "n", "d", "e", "r", " ", "t", "h", "e", " ", "G", "a", "r", "a", "g", "e">>>>,
       \* (r"The Dormin's dead\b", "The Doorman's dead")
       <<Cat(<<Lit(<<"T", "h", "e", " ", "D", "o", "r", "m", "i", "n", "'", "s", " ", "d", "e", "a", "d">>), Wb>>), <<"T", "h", "e", " ", "D", "o", "o", "r", "m", "a", "n", "'", "s", " ", "d", "e", "a", "d">>>>,
       \* (r'The Dormin was here\b', 'The Doorman was here')
       <<Cat(<<Lit(<<"T", "h", "e", " ", "D", "o", "r", "m", "i", "n", " ", "w", "a", "s", " ", "h", "e", "r", "e">>), Wb>>), <<"T", "h", "e", " ", "D", "o", "o", "r", "m", "a", "n", " ", "w", "a", "s", " ", "h", "e", "r", "e">>>>,
       \* (r'The Dormin is almost back\b', 'The Doorman is almost back')
       <<Cat(<<Lit(<<"T", "h", "e", " ", "D", "o", "r", "m", "i", "n", " ", "i", "s", " ", "a", "l", "m", "o", "s", "t", " ", "b", "a", "c", "k">>), Wb>>), <<"T", "h", "e", " ", "D", "o", "o", "r", "m", "a", "n", " ", "i", "s", " ", "a", "l", "m", "o", "s", "t", " ", "b", "a", "c", "k">>>>,
       \* (r"The Dorman's in Mid\b", "The Doorman's in Mid")
       <<Cat(<<Lit(<<"T", "h", "e", " ", "D", "o", "r", "m", "a", "n", "'", "s", " ", "i", "n", " ", "M", "i", "d">>), Wb>>), <<"T", "h", "e", " ", "D", "o", "o", "r", "m", "a", "n", "'", "s", " ", "i", "n", " ", "M", "i", "d">>>>,
       \* (r"The Doman's on the bridge\b", "The Doorman's on the bridge")
       <<Cat(<<Lit(<<"T", "h", "e", " ", "D", "o", "m", "a", "n", "'", "s", " ", "o", "n", " ", "t", "h", "e", " ", "b", "r", "i", "d", "g", "e">>), Wb>>), <<"T", "h", "e", " ", "D", "o", "o", "r", "m", "a", "n", "'", "s", " ", "o", "n", " ", "t", "h", "e", " ", "b", "r", "i", "d", "g", "e">>>>,
       \* (r"The Doughman's on the Roof\b", "The Doorman's on the Roof")
       <<Cat(<<Lit(<<"T", "h", "e", " ", "D", "o", "u", "g", "h", "m", "a", "n", "'", "s", " ", "o", "n", " ", "t", "h", "e", " ", "R", "o", "o", "f">>), Wb>>), <<"T", "h", "e", " ", "D", "o", "o", "r", "m", "a", "n", "'", "s", " ", "o", "n", " ", "t", "h", "e", " ", "R", "o", "o", "f">>>>,
       \* (r'Check out what the Dolmen bought\b', 'Check out what the Doorman bought')
       <<Cat(<<Lit(<<"C", "h", "e", "c", "k", " ", "o", "u", "t", " ", "w", "h", "a", "t", " ", "t", "h", "e", " ", "D", "o", "l", "m", "e", "n", " ", "b", "o", "u", "g", "h", "t">>), Wb>>), <<"C", "h", "e", "c", "k", " ", "o", "u", "t", " ", "w", "h", "a", "t", " ", "t", "h", "e", " ", "D", "o", "o", "r", "m", "a", "n", " ", "b", "o", "u", "g", "h", "t">>>>,
       \* (r'Ignore the Dolmen\b', 'Ignore the Doorman')
       <<Cat(<<Lit(<<"I", "g", "n", "o", "r", "e", " ", "t", "h", "e", " ", "D", "o", "l", "m", "e", "n">>), Wb>>), <<"I", "g", "n", "o", "r", "e", " ", "t", "h", "e", " ", "D", "o", "o", "r", "m", "a", "n">>>>,
       \* (r'Stun Dolmen\b', 'Stun Doorman')
       <<Cat(<<Lit(<<"S", "t", "u", "n", " ", "D", "o", "l", "m", "e", "n">>), Wb>>), <<"S", "t", "u", "n", " ", "D", "o", "o", "r", "m", "a", "n">>>>,
       \* (r"I'm with you, Dorman\b", "I'm with you, Doorman")
       <<Cat(<<Lit(<<"I", "'", "m", " ", "w", "i", "t", "h", " ", "y", "o", "u", ",", " ", "D", "o", "r", "m", "a", "n">>), Wb>>), <<"I", "'", "m", " ", "w", "i", "t", "h", " ", "y", "o", "u", ",", " ", "D", "o", "o", "r", "m", "a", "n">>>>,
       \* (r'Careful, Dorman\b', 'Careful, Doorman')
       <<Cat(<<Lit(<<"C", "a", "r", "e", "f", "u", "l", ",", " ", "D", "o", "r", "m", "a", "n">>), Wb>>), <<"C", "a", "r", "e", "f", "u", "l", ",", " ", "D", "o", "o", "r", "m", "a", "n">>>>,
       \* (r'Venera was here\b', 'Venator was here')
       <<Cat(<<Lit(<<"V", "e", "n", "e", "r", "a", " ", "w", "a", "s", " ", "h", "e", "r", "e">>), Wb>>), <<"V", "e", "n", "a", "t", "o", "r", " ", "w", "a", "s", " ", "h", "e", "r", "e">>>>,
       \* (r"Venera's on the bridge\b", "Venator's on the bridge")
       <<Cat(<<Lit(<<"V", "e", "n", "e", "r", "a", "'", "s", " ", "o", "n", " ", "t", "h", "e", " ", "b", "r", "i", "d", "g", "e">>), Wb>>), <<"V", "e", "n", "a", "t", "o", "r", "'", "s", " ", "o", "n", " ", "t", "h", "e", " ", "b", "r", "i", "d", "g", "e">>>>,
       \* (r'Venetus under da garage\b', "Venator's under the garage")
       <<Cat(<<Lit(<<"V", "e", "n", "e", "t", "u", "s", " ", "u", "n", "d", "e", "r", " ", "d", "a", " ", "g", "a", "r", "a", "g", "e">>), Wb>>), <<"V", "e", "n", "a", "t", "o", "r", "'", "s", " ", "u", "n", "d", "e", "r", " ", "t", "h", "e", " ", "g", "a", "r", "a", "g", "e">>>>,
       \* (r'Banners in mid\b', "Venator's in mid")
       <<Cat(<<Lit(<<"B", "a", "n", "n", "e", "r", "s", " ", "i", "n", " ", "m", "i", "d">>), Wb>>), <<"V", "e", "n", "a", "t", "o", "r", "'", "s", " ", "i", "n", " ", "m", "i", "d">>>>,
       \* (r'Betterless on top of mid\b', "Venator's on top of mid")
       <<Cat(<<Lit(<<"B", "e", "t", "t", "e", "r", "l", "e", "s", "s", " ", "o", "n", " ", "t", "o", "p", " ", "o", "f", " ", "m", "i", "d">>), Wb>>), <<"V", "e", "n", "a", "t", "o", "r", "'", "s", " ", "o", "n", " ", "t", "o", "p", " ", "o", "f", " ", "m", "i", "d">>>>,
       \* (r'Stun veneta\b', 'Stun Venator')
       <<Cat(<<Lit(<<"S", "t", "u", "n", " ", "v", "e", "n", "e", "t", "a">>), Wb>>), <<"S", "t", "u", "n", " ", "V", "e", "n", "a", "t", "o", "r">>>>,
       \* (r'I saw venera\b', 'I saw Venator')
       <<Cat(<<Lit(<<"I", " ", "s", "a", "w", " ", "v", "e", "n", "e", "r", "a">>), Wb>>), <<"I", " ", "s", "a", "w", " ", "V", "e", "n", "a", "t", "o", "r">>>>,
       \* (r'Careful, fella\b', 'Careful, Venator')
       <<Cat(<<Lit(<<"C", "a", "r", "e", "f", "u", "l", ",", " ", "f", "e", "l", "l", "a">>), Wb>>), <<"C", "a", "r", "e", "f", "u", "l", ",", " ", "V", "e", "n", "a", "t", "o", "r">>>>,
       \* (r'Catacombs on top of mid\b', "Calico's on top of mid")
       <<Cat(<<Lit(<<"C", "a", "t", "a", "c", "o", "m", "b", "s", " ", "o", "n", " ", "t", "o", "p", " ", "o", "f", " ", "m", "i", "d">>), Wb>>), <<"C", "a", "l", "i", "c", "o", "'", "s", " ", "o", "n", " ", "t", "o", "p", " ", "o", "f", " ", "m", "i", "d">>>>,
       \* (r'Dive is on top of mid\b', "Ivy's on top of mid")
       <<Cat(<<Lit(<<"D", "i", "v", "e", " ", "i", "s", " ", "o", "n", " ", "t", "o", "p", " ", "o", "f", " ", "m", "i", "d">>), Wb>>), <<"I", "v", "y", "'", "s", " ", "o", "n", " ", "t", "o", "p", " ", "o", "f", " ", "m", "i", "d">>>>,
       \* (r'It is on top of the garage\b', "Billy's on top of the garage")
       <<Cat(<<Lit(<<"I", "t", " ", "i", "s", " ", "o", "n", " ", "t", "o", "p", " ", "o", "f", " ", "t", "h", "e", " ", "g", "a", "r", "a", "g", "e">>), Wb>>), <<"B", "i", "l", "l", "y", "'", "s", " ", "o", "n", " ", "t", "o", "p", " ", "o", "f", " ", "t", "h", "e", " ", "g", "a", "r", "a", "g", "e">>>>,
       \* (r'It is on top of mid\b', "Billy's on top of mid")
       <<Cat(<<Lit(<<"I", "t", " ", "i", "s", " ", "o", "n", " ", "t", "o", "p", " ", "o", "f", " ", "m", "i", "d">>), Wb>>), <<"B", "i", "l", "l", "y", "'", "s", " ", "o", "n", " ", "t", "o", "p", " ", "o", "f", " ", "m", "i", "d">>>>,
       \* (r'It is under the garage\b', "Billy's under the garage")
       <<Cat(<<Lit(<<"I", "t", " ", "i", "s", " ", "u", "n", "d", "e", "r", " ", "t", "h", "e", " ", "g", "a", "r", "a", "g", "e">>), Wb>>), <<"B", "i", "l", "l", "y", "'", "s", " ", "u", "n", "d", "e", "r", " ", "t", "h", "e", " ", "g", "a", "r", "a", "g", "e">>>>,
       \* (r'It is on the bridge\b', "Billy's on the bridge")
       <<Cat(<<Lit(<<"I", "t", " ", "i", "s", " ", "o", "n", " ", "t", "h", "e", " ", "b", "r", "i", "d", "g", "e">>), Wb>>), <<"B", "i", "l", "l", "y", "'", "s", " ", "o", "n", " ", "t", "h", "e", " ", "b", "r", "i", "d", "g", "e">>>>,
       \* (r'Pillies on the roof\b', "Billy's on the roof")
       <<Cat(<<Lit(<<"P", "i", "l", "l", "i", "e", "s", " ", "o", "n", " ", "t", "h", "e", " ", "r", "o", "o", "f">>), Wb>>), <<"B", "i", "l", "l", "y", "'", "s", " ", "o", "n", " ", "t", "h", "e", " ", "r", "o", "o", "f">>>>,
       \* (r"Fatum's on top of mid\b", "Fathom's on top of mid")
       <<Cat(<<Lit(<<"F", "a", "t", "u", "m", "'", "s", " ", "o", "n", " ", "t", "o", "p", " ", "o", "f", " ", "m", "i", "d">>), Wb>>), <<"F", "a", "t", "h", "o", "m", "'", "s", " ", "o", "n", " ", "t", "o", "p", " ", "o", "f", " ", "m", "i", "d">>>>,
       \* (r'Victus on top of mid\b', "Victor's on top of mid")
       <<Cat(<<Lit(<<"V", "i", "c", "t", "u", "s", " ", "o", "n", " ", "t", "o", "p", " ", "o", "f", " ", "m", "i", "d">>), Wb>>), <<"V", "i", "c", "t", "o", "r", "'", "s", " ", "o", "n", " ", "t", "o", "p", " ", "o", "f", " ", "m", "i", "d">>>>,
       \* (r'Starting Furnace\b', 'Stun Infernus')
       <<Cat(<<Lit(<<"S", "t", "a", "r", "t", "i", "n", "g", " ", "F", "u", "r", "n", "a", "c", "e">>), Wb>>), <<"S", "t", "u", "n", " ", "I", "n", "f", "e", "r", "n", "u", "s">>>>,
       \* (r'Done sinclair\b', 'Stun Sinclair')
       <<Cat(<<Lit(<<"D", "o", "n", "e", " ", "s", "i", "n", "c", "l", "a", "i", "r">>), Wb>>), <<"S", "t", "u", "n", " ", "S", "i", "n", "c", "l", "a", "i", "r">>>>,
       \* (r'Dunraven\b', 'Stun Raven')
       <<Cat(<<Lit(<<"D", "u", "n", "r", "a", "v", "e", "n">>), Wb>>), <<"S", "t", "u", "n", " ", "R", "a", "v", "e", "n">>>>,
       \* (r"Don't fathom\b", 'Stun Fathom')
       <<Cat(<<Lit(<<"D", "o", "n", "'", "t", " ", "f", "a", "t", "h", "o", "m">>), Wb>>), <<"S", "t", "u", "n", " ", "F", "a", "t", "h", "o", "m">>>>,
       \* (r'Gun trapper\b', 'Stun Trapper')
       <<Cat(<<Lit(<<"G", "u", "n", " ", "t", "r", "a", "p", "p", "e", "r">>), Wb>>), <<"S", "t", "u", "n", " ", "T", "r", "a", "p", "p", "e", "r">>>>,
       \* (r'Darn Vyper\b', 'Stun Vyper')
       <<Cat(<<Lit(<<"D", "a", "r", "n", " ", "V", "y", "p", "e", "r">>), Wb>>), <<"S", "t", "u", "n", " ", "V", "y", "p", "e", "r">>>>,
       \* (r"Startin' Warden\b", 'Stun Warden')
       <<Cat(<<Lit(<<"S", "t", "a", "r", "t", "i", "n", "'", " ", "W", "a", "r", "d", "e", "n">>), Wb>>), <<"S", "t", "u", "n", " ", "W", "a", "r", "d", "e", "n">>>>,
       \* (r'Stand dynamo\b', 'Stun Dynamo')
       <<Cat(<<Lit(<<"S", "t", "a", "n", "d", " ", "d", "y", "n", "a", "m", "o">>), Wb>>), <<"S", "t", "u", "n", " ", "D", "y", "n", "a", "m", "o">>>>,
       \* (r'Stan Abrams\b', 'Stun Abrams')
       <<Cat(<<Lit(<<"S", "t", "a", "n", " ", "A", "b", "r", "a", "m", "s">>), Wb>>), <<"S", "t", "u", "n", " ", "A", "b", "r", "a", "m", "s">>>>,
       \* (r'Stan kelvin\b', 'Stun Kelvin')
       <<Cat(<<Lit(<<"S", "t", "a", "n", " ", "k", "e", "l", "v", "i", "n">>), Wb>>), <<"S", "t", "u", "n", " ", "K", "e", "l", "v", "i", "n">>>>,
       \* (r'Stan murphy\b', 'Stun Murphy')
       <<Cat(<<Lit(<<"S", "t", "a", "n", " ", "m", "u", "r", "p", "h", "y">>), Wb>>), <<"S", "t", "u", "n", " ", "M", "u", "r", "p", "h", "y">>>>,
       \* (r'Stan dynamo\b', 'Stun Dynamo')
       <<Cat(<<Lit(<<"S", "t", "a", "n", " ", "d", "y", "n", "a", "m", "o">>), Wb>>), <<"S", "t", "u", "n", " ", "D", "y", "n", "a", "m", "o">>>>,
       \* (r'Stan mcginnis\b', 'Stun McGinnis')
       <<Cat(<<Lit(<<"S", "t", "a", "n", " ", "m", "c", "g", "i", "n", "n", "i", "s">>), Wb>>), <<"S", "t", "u", "n", " ", "M", "c", "G", "i", "n", "n", "i", "s">>>>,
       \* (r'Stan ivy\b', 'Stun Ivy')
       <<Cat(<<Lit(<<"S", "t", "a", "n", " ", "i", "v", "y">>), Wb>>), <<"S", "t", "u", "n", " ", "I", "v", "y">>>>,
       \* (r'Stan billy\b', 'Stun Billy')
       <<Cat(<<Lit(<<"S", "t", "a", "n", " ", "b", "i", "l", "l", "y">>), Wb>>), <<"S", "t", "u", "n", " ", "B", "i", "l", "l", "y">>>>,
       \* (r'Stan Warden\b', 'Stun Warden')
       <<Cat(<<Lit(<<"S", "t", "a", "n", " ", "W", "a", "r", "d", "e", "n">>), Wb>>), <<"S", "t", "u", "n", " ", "W", "a", "r", "d", "e", "n">>>>,
       \* (r'Stan Sinclair\b', 'Stun Sinclair')
       <<Cat(<<Lit(<<"S", "t", "a", "n", " ", "S", "i", "n", "c", "l", "a", "i", "r">>), Wb>>), <<"S", "t", "u", "n", " ", "S", "i", "n", "c", "l", "a", "i", "r">>>>,
       \* (r'Stan yamato\b', 'Stun Yamato')
       <<Cat(<<Lit(<<"S", "t", "a", "n", " ", "y", "a", "m", "a", "t", "o">>), Wb>>), <<"S", "t", "u", "n", " ", "Y", "a", "m", "a", "t", "o">>>>,
       \* (r'Stan se7en\b', 'Stun Seven')
       <<Cat(<<Lit(<<"S", "t", "a", "n", " ", "s", "e", "7", "e", "n">>), Wb>>), <<"S", "t", "u", "n", " ", "S", "e", "v", "e", "n">>>>,
       \* (r'Stan pockett\b', 'Stun Pocket')
       <<Cat(<<Lit(<<"S", "t", "a", "n", " ", "p", "o", "c", "k", "e", "t", "t">>), Wb>>), <<"S", "t", "u", "n", " ", "P", "o", "c", "k", "e", "t">>>>,
       \* (r'Stan paradox\b', 'Stun Paradox')
       <<Cat(<<Lit(<<"S", "t", "a", "n", " ", "p", "a", "r", "a", "d", "o", "x">>), Wb>>), <<"S", "t", "u", "n", " ", "P", "a", "r", "a", "d", "o", "x">>>>,
       \* (r'Stan mcguinness\b', 'Stun McGinnis')
       <<Cat(<<Lit(<<"S", "t", "a", "n", " ", "m", "c", "g", "u", "i", "n", "n", "e", "s", "s">>), Wb>>), <<"S", "t", "u", "n", " ", "M", "c", "G", "i", "n", "n", "i", "s">>>>,
       \* (r'Stan lush\b', 'Stun Lash')
       <<Cat(<<Lit(<<"S", "t", "a", "n", " ", "l", "u", "s", "h">>), Wb>>), <<"S", "t", "u", "n", " ", "L", "a", "s", "h">>>>,
       \* (r'Stan holiday\b', 'Stun Holliday')
       <<Cat(<<Lit(<<"S", "t", "a", "n", " ", "h", "o", "l", "i", "d", "a", "y">>), Wb>>), <<"S", "t", "u", "n", " ", "H", "o", "l", "l", "i", "d", "a", "y">>>>,
       \* (r'(?i)Stan haze\b', 'Stun Haze')
       <<IgnoreCase(Cat(<<Lit(<<"S", "t", "a", "n", " ", "h", "a", "z", "e">>), Wb>>)), <<"S", "t", "u", "n", " ", "H", "a", "z", "e">>>>,
       \* (r'Stan greytaran\b', 'Stun Grey Talon')
       <<Cat(<<Lit(<<"S", "t", "a", "n", " ", "g", "r", "e", "y", "t", "a", "r", "a", "n">>), Wb>>), <<"S", "t", "u", "n", " ", "G", "r", "e", "y", " ", "T", "a", "l", "o", "n">>>>,
       \* (r'Stan galico\b', 'Stun Calico')
       <<Cat(<<Lit(<<"S", "t", "a", "n", " ", "g", "a", "l", "i", "c", "o">>), Wb>>), <<"S", "t", "u", "n", " ", "C", "a", "l", "i", "c", "o">>>>,
       \* (r'Stan clear\b', 'Stun Sinclair')
       <<Cat(<<Lit(<<"S", "t", "a", "n", " ", "c", "l", "e", "a", "r">>), Wb>>), <<"S", "t", "u", "n", " ", "S", "i", "n", "c", "l", "a", "i", "r">>>>,
       \* (r'Stan Wicca\b', 'Stun Viscous')
       <<Cat(<<Lit(<<"S", "t", "a", "n", " ", "W", "i", "c", "c", "a">>), Wb>>), <<"S", "t", "u", "n", " ", "V", "i", "s", "c", "o", "u", "s">>>>,
       \* (r'Stan Sandeep\b', 'Stun Mirage')
       <<Cat(<<Lit(<<"S", "t", "a", "n", " ", "S", "a", "n", "d", "e", "e", "p">>), Wb>>), <<"S", "t", "u", "n", " ", "M", "i", "r", "a", "g", "e">>>>,
       \* (r'Stan McInnes\b', 'Stun McGinnis')
       <<Cat(<<Lit(<<"S", "t", "a", "n", " ", "M", "c", "I", "n", "n", "e", "s">>), Wb>>), <<"S", "t", "u", "n", " ", "M", "c", "G", "i", "n", "n", "i", "s">>>>,
       \* (r'Stan McGuinness\b', 'Stun McGinnis')
       <<Cat(<<Lit(<<"S", "t", "a", "n", " ", "M", "c", "G", "u", "i", "n", "n", "e", "s", "s">>), Wb>>), <<"S", "t", "u", "n", " ", "M", "c", "G", "i", "n", "n", "i", "s">>>>,
       \* (r'Stan Krill\b', 'Stun Krill')
       <<Cat(<<Lit(<<"S", "t", "a", "n", " ", "K", "r", "i", "l", "l">>), Wb>>), <<"S", "t", "u", "n", " ", "K", "r", "i", "l", "l">>>>,
       \* (r'Stan Kermin\b', 'Stun Kelvin')
       <<Cat(<<Lit(<<"S", "t", "a", "n", " ", "K", "e", "r", "m", "i", "n">>), Wb>>), <<"S", "t", "u", "n", " ", "K", "e", "l", "v", "i", "n">>>>,
       \* (r'Stan Ivey\b', 'Stun Ivy')
       <<Cat(<<Lit(<<"S", "t", "a", "n", " ", "I", "v", "e", "y">>), Wb>>), <<"S", "t", "u", "n", " ", "I", "v", "y">>>>,
       \* (r'Stan Gigawatt\b', 'Stun Seven')
       <<Cat(<<Lit(<<"S", "t", "a", "n", " ", "G", "i", "g", "a", "w", "a", "t", "t">>), Wb>>), <<"S", "t", "u", "n", " ", "S", "e", "v", "e", "n">>>>,
       \* (r'Stan Galicko\b', 'Stun Calico')
       <<Cat(<<Lit(<<"S", "t", "a", "n", " ", "G", "a", "l", "i", "c", "k", "o">>), Wb>>), <<"S", "t", "u", "n", " ", "C", "a", "l", "i", "c", "o">>>>,
       \* (r'Stan Calico\b', 'Stun Calico')
       <<Cat(<<Lit(<<"S", "t", "a", "n", " ", "C", "a", "l", "i", "c", "o">>), Wb>>), <<"S", "t", "u", "n", " ", "C", "a", "l", "i", "c", "o">>>>,
       \* (r'I saw race\b', 'I saw Wraith')
       <<Cat(<<Lit(<<"I", " ", "s", "a", "w", " ", "r", "a", "c", "e">>), Wb>>), <<"I", " ", "s", "a", "w", " ", "W", "r", "a", "i", "t", "h">>>>,
       \* (r'I saw Race\b', 'I saw Wraith')
       <<Cat(<<Lit(<<"I", " ", "s", "a", "w", " ", "R", "a", "c", "e">>), Wb>>), <<"I", " ", "s", "a", "w", " ", "W", "r", "a", "i", "t", "h">>>>,
       \* (r'Race on top of the garage\b', "Wraith's on top of the garage")
       <<Cat(<<Lit(<<"R", "a", "c", "e", " ", "o", "n", " ", "t", "o", "p", " ", "o", "f", " ", "t", "h", "e", " ", "g", "a", "r", "a", "g", "e">>), Wb>>), <<"W", "r", "a", "i", "t", "h", "'", "s", " ", "o", "n", " ", "t", "o", "p", " ", "o", "f", " ", "t", "h", "e", " ", "g", "a", "r", "a", "g", "e">>>>,
       \* (r'Just Business Race\b', 'Just business, Wraith')
       <<Cat(<<Lit(<<"J", "u", "s", "t", " ", "B", "u", "s", "i", "n", "e", "s", "s", " ", "R", "a", "c", "e">>), Wb>>), <<"J", "u", "s", "t", " ", "b", "u", "s", "i", "n", "e", "s", "s", ",", " ", "W", "r", "a", "i", "t", "h">>>>,
       \* (r'Quills on the roof\b', "Krill's on the roof")
       <<Cat(<<Lit(<<"Q", "u", "i", "l", "l", "s", " ", "o", "n", " ", "t", "h", "e", " ", "r", "o", "o", "f">>), Wb>>), <<"K", "r", "i", "l", "l", "'", "s", " ", "o", "n", " ", "t", "h", "e", " ", "r", "o", "o", "f">>>>,
       \* (r'Quills in mid\b', "Krill's in mid")
       <<Cat(<<Lit(<<"Q", "u", "i", "l", "l", "s", " ", "i", "n", " ", "m", "i", "d">>), Wb>>), <<"K", "r", "i", "l", "l", "'", "s", " ", "i", "n", " ", "m", "i", "d">>>>,
       \* (r'Grills on a roof\b', "Krill's on a roof")
       <<Cat(<<Lit(<<"G", "r", "i", "l", "l", "s", " ", "o", "n", " ", "a", " ", "r", "o", "o", "f">>), Wb>>), <<"K", "r", "i", "l", "l", "'", "s", " ", "o", "n", " ", "a", " ", "r", "o", "o", "f">>>>,
       \* (r'Castle Victory\b', 'Careful, Victor')
       <<Cat(<<Lit(<<"C", "a", "s", "t", "l", "e", " ", "V", "i", "c", "t", "o", "r", "y">>), Wb>>), <<"C", "a", "r", "e", "f", "u", "l", ",", " ", "V", "i", "c", "t", "o", "r">>>>,
       \* (r"Victory's almost back\b", "Victor's almost back")
       <<Cat(<<Lit(<<"V", "i", "c", "t", "o", "r", "y", "'", "s", " ", "a", "l", "m", "o", "s", "t", " ", "b", "a", "c", "k">>), Wb>>), <<"V", "i", "c", "t", "o", "r", "'", "s", " ", "a", "l", "m", "o", "s", "t", " ", "b", "a", "c", "k">>>>,
       \* (r'Victory is dead\b', 'Victor is dead')
       <<Cat(<<Lit(<<"V", "i", "c", "t", "o", "r", "y", " ", "i", "s", " ", "d", "e", "a", "d">>), Wb>>), <<"V", "i", "c", "t", "o", "r", " ", "i", "s", " ", "d", "e", "a", "d">>>>,
       \* (r'Victory made\b', "Victor's in mid")
       <<Cat(<<Lit(<<"V", "i", "c", "t", "o", "r", "y", " ", "m", "a", "d", "e">>), Wb>>), <<"V", "i", "c", "t", "o", "r", "'", "s", " ", "i", "n", " ", "m", "i", "d">>>>,
       \* (r'Pictures missing\b', "Victor's missing")
       <<Cat(<<Lit(<<"P", "i", "c", "t", "u", "r", "e", "s", " ", "m", "i", "s", "s", "i", "n", "g">>), Wb>>), <<"V", "i", "c", "t", "o", "r", "'", "s", " ", "m", "i", "s", "s", "i", "n", "g">>>>,
       \* (r'Fixers on top of the garage\b', "Victor's on top of the garage")
       <<Cat(<<Lit(<<"F", "i", "x", "e", "r", "s", " ", "o", "n", " ", "t", "o", "p", " ", "o", "f", " ", "t", "h", "e", " ", "g", "a", "r", "a", "g", "e">>), Wb>>), <<"V", "i", "c", "t", "o", "r", "'", "s", " ", "o", "n", " ", "t", "o", "p", " ", "o", "f", " ", "t", "h", "e", " ", "g", "a", "r", "a", "g", "e">>>>,
       \* (r'Victors on top of the garage\b', "Victor's on top of the garage")
       <<Cat(<<Lit(<<"V", "i", "c", "t", "o", "r", "s", " ", "o", "n", " ", "t", "o", "p", " ", "o", "f", " ", "t", "h", "e", " ", "g", "a", "r", "a", "g", "e">>), Wb>>), <<"V", "i", "c", "t", "o", "r", "'", "s", " ", "o", "n", " ", "t", "o", "p", " ", "o", "f", " ", "t", "h", "e", " ", "g", "a", "r", "a", "g", "e">>>>,
       \* (r'Victors on the roof\b', "Victor's on the roof")
       <<Cat(<<Lit(<<"V", "i", "c", "t", "o", "r", "s", " ", "o", "n", " ", "t", "h", "e", " ", "r", "o", "o", "f">>), Wb>>), <<"V", "i", "c", "t", "o", "r", "'", "s", " ", "o", "n", " ", "t", "h", "e", " ", "r", "o", "o", "f">>>>,
       \* (r'Victors in Mid\b', "Victor's in Mid")
       <<Cat(<<Lit(<<"V", "i", "c", "t", "o", "r", "s", " ", "i", "n", " ", "M", "i", "d">>), Wb>>), <<"V", "i", "c", "t", "o", "r", "'", "s", " ", "i", "n", " ", "M", "i", "d">>>>,
       \* (r'^ *Thank you for watching!? *$', '')
       <<Cat(<<Bol, Star(Lit(<<" ">>)), Lit(<<"T", "h", "a", "n", "k", " ", "y", "o", "u", " ", "f", "o", "r", " ", "w", "a", "t", "c", "h", "i", "n", "g">>), Opt(Lit(<<"!">>)), Star(Lit(<<" ">>)), Eol>>), << >>>>,
       \* (r'^ *Thanks for watching!? *$', '')
       <<Cat(<<Bol, Star(Lit(<<" ">>)), Lit(<<"T", "h", "a", "n", "k", "s", " ", "f", "o", "r", " ", "w", "a", "t", "c", "h", "i", "n", "g">>), Opt(Lit(<<"!">>)), Star(Lit(<<" ">>)), Eol>>), << >>>>,
       \* (r'^ *Please subscribe!? *$', '')
       <<Cat(<<Bol, Star(Lit(<<" ">>)), Lit(<<"P", "l", "e", "a", "s", "e", " ", "s", "u", "b", "s", "c", "r", "i", "b", "e">>), Opt(Lit(<<"!">>)), Star(Lit(<<" ">>)), Eol>>), << >>>>,
       \* (r'^ *THANKS FOR WATCHING!? *$', '')
       <<Cat(<<Bol, Star(Lit(<<" ">>)), Lit(<<"T", "H", "A", "N", "K", "S", " ", "F", "O", "R", " ", "W", "A", "T", "C", "H", "I", "N", "G">>), Opt(Lit(<<"!">>)), Star(Lit(<<" ">>)), Eol>>), << >>>>,
       \* (r'^ *Thanks For Watching!? *$', '')
       <<Cat(<<Bol, Star(Lit(<<" ">>)), Lit(<<"T", "h", "a", "n", "k", "s", " ", "F", "o", "r", " ", "W", "a", "t", "c", "h", "i", "n", "g">>), Opt(Lit(<<"!">>)), Star(Lit(<<" ">>)), Eol>>), << >>>>,
       \* (r'^ *Thank You For Watching!? *$', '')
       <<Cat(<<Bol, Star(Lit(<<" ">>)), Lit(<<"T", "h", "a", "n", "k", " ", "Y", "o", "u", " ", "F", "o", "r", " ", "W", "a", "t", "c", "h", "i", "n", "g">>), Opt(Lit(<<"!">>)), Star(Lit(<<" ">>)), Eol>>), << >>>>,
       \* (r'^ *\?\?+ *$', '')
       <<Cat(<<Bol, Star(Lit(<<" ">>)), Lit(<<"?">>), Plus(Lit(<<"?">>)), Star(Lit(<<" ">>)), Eol>>), << >>>>,
       \* (r'Stone the Guinness\b', 'Stun McGinnis')
       <<Cat(<<Lit(<<"S", "t", "o", "n", "e", " ", "t", "h", "e", " ", "G", "u", "i", "n", "n", "e", "s", "s">>), Wb>>), <<"S", "t", "u", "n", " ", "M", "c", "G", "i", "n", "n", "i", "s">>>>,
       \* (r'Stan McInnes\b', 'Stun McGinnis')
       <<Cat(<<Lit(<<"S", "t", "a", "n", " ", "M", "c", "I", "n", "n", "e", "s">>), Wb>>), <<"S", "t", "u", "n", " ", "M", "c", "G", "i", "n", "n", "i", "s">>>>,
       \* (r'They took out graph\b', 'They took out Graf')
       <<Cat(<<Lit(<<"T", "h", "e", "y", " ", "t", "o", "o", "k", " ", "o", "u", "t", " ", "g", "r", "a", "p", "h">>), Wb>>), <<"T", "h", "e", "y", " ", "t", "o", "o", "k", " ", "o", "u", "t", " ", "G", "r", "a", "f">>>>,
       \* (r'I see Graph\b', 'I see Graf')
       <<Cat(<<Lit(<<"I", " ", "s", "e", "e", " ", "G", "r", "a", "p", "h">>), Wb>>), <<"I", " ", "s", "e", "e", " ", "G", "r", "a", "f">>>>,
       \* (r'Careful graph\b', 'Careful, Graf')
       <<Cat(<<Lit(<<"C", "a", "r", "e", "f", "u", "l", " ", "g", "r", "a", "p", "h">>), Wb>>), <<"C", "a", "r", "e", "f", "u", "l", ",", " ", "G", "r", "a", "f">>>>,
       \* (r'Creografton\b', 'Stun Graf')
       <<Cat(<<Lit(<<"C", "r", "e", "o", "g", "r", "a", "f", "t", "o", "n">>), Wb>>), <<"S", "t", "u", "n", " ", "G", "r", "a", "f">>>>,
       \* (r"Let's take out the Dormant\b", "Let's take out the Doorman")
       <<Cat(<<Lit(<<"L", "e", "t", "'", "s", " ", "t", "a", "k", "e", " ", "o", "u", "t", " ", "t", "h", "e", " ", "D", "o", "r", "m", "a", "n", "t">>), Wb>>), <<"L", "e", "t", "'", "s", " ", "t", "a", "k", "e", " ", "o", "u", "t", " ", "t", "h", "e", " ", "D", "o", "o", "r", "m", "a", "n">>>>,
       \* (r'Dormant is almost back\b', 'Doorman is almost back')
       <<Cat(<<Lit(<<"D", "o", "r", "m", "a", "n", "t", " ", "i", "s", " ", "a", "l", "m", "o", "s", "t", " ", "b", "a", "c", "k">>), Wb>>), <<"D", "o", "o", "r", "m", "a", "n", " ", "i", "s", " ", "a", "l", "m", "o", "s", "t", " ", "b", "a", "c", "k">>>>,
       \* (r'Check out what Dormant bought\b', 'Check out what Doorman bought')
       <<Cat(<<Lit(<<"C", "h", "e", "c", "k", " ", "o", "u", "t", " ", "w", "h", "a", "t", " ", "D", "o", "r", "m", "a", "n", "t", " ", "b", "o", "u", "g", "h", "t">>), Wb>>), <<"C", "h", "e", "c", "k", " ", "o", "u", "t", " ", "w", "h", "a", "t", " ", "D", "o", "o", "r", "m", "a", "n", " ", "b", "o", "u", "g", "h", "t">>>>,
       \* (r"Dormant's on top of the Garage\b", "Doorman's on top of the Garage")
       <<Cat(<<Lit(<<"D", "o", "r", "m", "a", "n", "t", "'", "s", " ", "o", "n", " ", "t", "o", "p", " ", "o", "f", " ", "t", "h", "e", " ", "G", "a", "r", "a", "g", "e">>), Wb>>), <<"D", "o", "o", "r", "m", "a", "n", "'", "s", " ", "o", "n", " ", "t", "o", "p", " ", "o", "f", " ", "t", "h", "e", " ", "G", "a", "r", "a", "g", "e">>>>,
       \* (r'Dormant under the garage\b', "Doorman's under the garage")
       <<Cat(<<Lit(<<"D", "o", "r", "m", "a", "n", "t", " ", "u", "n", "d", "e", "r", " ", "t", "h", "e", " ", "g", "a", "r", "a", "g", "e">>), Wb>>), <<"D", "o", "o", "r", "m", "a", "n", "'", "s", " ", "u", "n", "d", "e", "r", " ", "t", "h", "e", " ", "g", "a", "r", "a", "g", "e">>>>,
       \* (r'Dormant on top of Mid\b', "Doorman's on top of Mid")
       <<Cat(<<Lit(<<"D", "o", "r", "m", "a", "n", "t", " ", "o", "n", " ", "t", "o", "p", " ", "o", "f", " ", "M", "i", "d">>), Wb>>), <<"D", "o", "o", "r", "m", "a", "n", "'", "s", " ", "o", "n", " ", "t", "o", "p", " ", "o", "f", " ", "M", "i", "d">>>>,
       \* (r"Dormant's under the garage\b", "Doorman's under the garage")
       <<Cat(<<Lit(<<"D", "o", "r", "m", "a", "n", "t", "'", "s", " ", "u", "n", "d", "e", "r", " ", "t", "h", "e", " ", "g", "a", "r", "a", "g", "e">>), Wb>>), <<"D", "o", "o", "r", "m", "a", "n", "'", "s", " ", "u", "n", "d", "e", "r", " ", "t", "h", "e", " ", "g", "a", "r", "a", "g", "e">>>>,
       \* (r"Dormant's on the roof\b", "Doorman's on the roof")
       <<Cat(<<Lit(<<"D", "o", "r", "m", "a", "n", "t", "'", "s", " ", "o", "n", " ", "t", "h", "e", " ", "r", "o", "o", "f">>), Wb>>), <<"D", "o", "o", "r", "m", "a", "n", "'", "s", " ", "o", "n", " ", "t", "h", "e", " ", "r", "o", "o", "f">>>>,
       \* (r"Dormant's on the bridge\b", "Doorman's on the bridge")
       <<Cat(<<Lit(<<"D", "o", "r", "m", "a", "n", "t", "'", "s", " ", "o", "n", " ", "t", "h", "e", " ", "b", "r", "i", "d", "g", "e">>), Wb>>), <<"D", "o", "o", "r", "m", "a", "n", "'", "s", " ", "o", "n", " ", "t", "h", "e", " ", "b", "r", "i", "d", "g", "e">>>>,
       \* (r"Dormant's under the Grudge\b", "Doorman's under the Garage")
       <<Cat(<<Lit(<<"D", "o", "r", "m", "a", "n", "t", "'", "s", " ", "u", "n", "d", "e", "r", " ", "t", "h", "e", " ", "G", "r", "u", "d", "g", "e">>), Wb>>), <<"D", "o", "o", "r", "m", "a", "n", "'", "s", " ", "u", "n", "d", "e", "r", " ", "t", "h", "e", " ", "G", "a", "r", "a", "g", "e">>>>,
       \* (r"The Dormant's missing\b", "The Doorman's missing")
       <<Cat(<<Lit(<<"T", "h", "e", " ", "D", "o", "r", "m", "a", "n", "t", "'", "s", " ", "m", "i", "s", "s", "i", "n", "g">>), Wb>>), <<"T", "h", "e", " ", "D", "o", "o", "r", "m", "a", "n", "'", "s", " ", "m", "i", "s", "s", "i", "n", "g">>>>,
       \* (r"The Dormant's in Mid\b", "The Doorman's in Mid")
       <<Cat(<<Lit(<<"T", "h", "e", " ", "D", "o", "r", "m", "a", "n", "t", "'", "s", " ", "i", "n", " ", "M", "i", "d">>), Wb>>), <<"T", "h", "e", " ", "D", "o", "o", "r", "m", "a", "n", "'", "s", " ", "i", "n", " ", "M", "i", "d">>>>,
       \* (r'Dormants in Mid\b', "Doorman's in Mid")
       <<Cat(<<Lit(<<"D", "o", "r", "m", "a", "n", "t", "s", " ", "i", "n", " ", "M", "i", "d">>), Wb>>), <<"D", "o", "o", "r", "m", "a", "n", "'", "s", " ", "i", "n", " ", "M", "i", "d">>>>,
       \* (r'Dormants on top of the garage\b', "Doorman's on top of the garage")
       <<Cat(<<Lit(<<"D", "o", "r", "m", "a", "n", "t", "s", " ", "o", "n", " ", "t", "o", "p", " ", "o", "f", " ", "t", "h", "e", " ", "g", "a", "r", "a", "g", "e">>), Wb>>), <<"D", "o", "o", "r", "m", "a", "n", "'", "s", " ", "o", "n", " ", "t", "o", "p", " ", "o", "f", " ", "t", "h", "e", " ", "g", "a", "r", "a", "g", "e">>>>,
       \* (r'Minas on top of mid\b', "Mina's on top of mid")
       <<Cat(<<Lit(<<"M", "i", "n", "a", "s", " ", "o", "n", " ", "t", "o", "p", " ", "o", "f", " ", "m", "i", "d">>), Wb>>), <<"M", "i", "n", "a", "'", "s", " ", "o", "n", " ", "t", "o", "p", " ", "o", "f", " ", "m", "i", "d">>>>,
       \* (r'I see, Mina\b', 'I see Mina')
       <<Cat(<<Lit(<<"I", " ", "s", "e", "e", ",", " ", "M", "i", "n", "a">>), Wb>>), <<"I", " ", "s", "e", "e", " ", "M", "i", "n", "a">>>>,
       \* (r'Meta, i can hear ya\b', 'Mina, I can heal ya')
       <<Cat(<<Lit(<<"M", "e", "t", "a", ",", " ", "i", " ", "c", "a", "n", " ", "h", "e", "a", "r", " ", "y", "a">>), Wb>>), <<"M", "i", "n", "a", ",", " ", "I", " ", "c", "a", "n", " ", "h", "e", "a", "l", " ", "y", "a">>>>,
       \* (r'Slorks and Mid\b', "Slork's in Mid")
       <<Cat(<<Lit(<<"S", "l", "o", "r", "k", "s", " ", "a", "n", "d", " ", "M", "i", "d">>), Wb>>), <<"S", "l", "o", "r", "k", "'", "s", " ", "i", "n", " ", "M", "i", "d">>>>,
       \* (r'Race on the bridge\b', "Wraith's on the bridge")
       <<Cat(<<Lit(<<"R", "a", "c", "e", " ", "o", "n", " ", "t", "h", "e", " ", "b", "r", "i", "d", "g", "e">>), Wb>>), <<"W", "r", "a", "i", "t", "h", "'", "s", " ", "o", "n", " ", "t", "h", "e", " ", "b", "r", "i", "d", "g", "e">>>>,
       \* (r'Race in Mid\b', "Wraith's in mid")
       <<Cat(<<Lit(<<"R", "a", "c", "e", " ", "i", "n", " ", "M", "i", "d">>), Wb>>), <<"W", "r", "a", "i", "t", "h", "'", "s", " ", "i", "n", " ", "m", "i", "d">>>>,
       \* (r'Race on top of the garage\b', "Wraith's on top of the garage")
       <<Cat(<<Lit(<<"R", "a", "c", "e", " ", "o", "n", " ", "t", "o", "p", " ", "o", "f", " ", "t", "h", "e", " ", "g", "a", "r", "a", "g", "e">>), Wb>>), <<"W", "r", "a", "i", "t", "h", "'", "s", " ", "o", "n", " ", "t", "o", "p", " ", "o", "f", " ", "t", "h", "e", " ", "g", "a", "r", "a", "g", "e">>>>,
       \* (r'Raced on top of the garage\b', "Wraith's on top of the garage")
       <<Cat(<<Lit(<<"R", "a", "c", "e", "d", " ", "o", "n", " ", "t", "o", "p", " ", "o", "f", " ", "t", "h", "e", " ", "g", "a", "r", "a", "g", "e">>), Wb>>), <<"W", "r", "a", "i", "t", "h", "'", "s", " ", "o", "n", " ", "t", "o", "p", " ", "o", "f", " ", "t", "h", "e", " ", "g", "a", "r", "a", "g", "e">>>>,
       \* (r'Race on top of mid\b', "Wraith's on top of mid")
       <<Cat(<<Lit(<<"R", "a", "c", "e", " ", "o", "n", " ", "t", "o", "p", " ", "o", "f", " ", "m", "i", "d">>), Wb>>), <<"W", "r", "a", "i", "t", "h", "'", "s", " ", "o", "n", " ", "t", "o", "p", " ", "o", "f", " ", "m", "i", "d">>>>,
       \* (r'Raced on top of mid\b', "Wraith's on top of mid")
       <<Cat(<<Lit(<<"R", "a", "c", "e", "d", " ", "o", "n", " ", "t", "o", "p", " ", "o", "f", " ", "m", "i", "d">>), Wb>>), <<"W", "r", "a", "i", "t", "h", "'", "s", " ", "o", "n", " ", "t", "o", "p", " ", "o", "f", " ", "m", "i", "d">>>>,
       \* (r'Race on the roof\b', "Wraith's on the roof")
       <<Cat(<<Lit(<<"R", "a", "c", "e", " ", "o", "n", " ", "t", "h", "e", " ", "r", "o", "o", "f">>), Wb>>), <<"W", "r", "a", "i", "t", "h", "'", "s", " ", "o", "n", " ", "t", "h", "e", " ", "r", "o", "o", "f">>>>,
       \* (r'Race neutralized\b', 'Wraith neutralized')
       <<Cat(<<Lit(<<"R", "a", "c", "e", " ", "n", "e", "u", "t", "r", "a", "l", "i", "z", "e", "d">>), Wb>>), <<"W", "r", "a", "i", "t", "h", " ", "n", "e", "u", "t", "r", "a", "l", "i", "z", "e", "d">>>>,
       \* (r'Careful Race\b', 'Careful, Wraith')
       <<Cat(<<Lit(<<"C", "a", "r", "e", "f", "u", "l", " ", "R", "a", "c", "e">>), Wb>>), <<"C", "a", "r", "e", "f", "u", "l", ",", " ", "W", "r", "a", "i", "t", "h">>>>,
       \* (r'Careful, Race\b', 'Careful, Wraith')
       <<Cat(<<Lit(<<"C", "a", "r", "e", "f", "u", "l", ",", " ", "R", "a", "c", "e">>), Wb>>), <<"C", "a", "r", "e", "f", "u", "l", ",", " ", "W", "r", "a", "i", "t", "h">>>>,
       \* (r'Be careful, Race\b', 'Be careful, Wraith')
       <<Cat(<<Lit(<<"B", "e", " ", "c", "a", "r", "e", "f", "u", "l", ",", " ", "R", "a", "c", "e">>), Wb>>), <<"B", "e", " ", "c", "a", "r", "e", "f", "u", "l", ",", " ", "W", "r", "a", "i", "t", "h">>>>,
       \* (r'Racedown\b', 'Wraith down')
       <<Cat(<<Lit(<<"R", "a", "c", "e", "d", "o", "w", "n">>), Wb>>), <<"W", "r", "a", "i", "t", "h", " ", "d", "o", "w", "n">>>>,
       \* (r'A joker of race\b', 'They took out Wraith')
       <<Cat(<<Lit(<<"A", " ", "j", "o", "k", "e", "r", " ", "o", "f", " ", "r", "a", "c", "e">>), Wb>>), <<"T", "h", "e", "y", " ", "t", "o", "o", "k", " ", "o", "u", "t", " ", "W", "r", "a", "i", "t", "h">>>>,
       \* (r'Good lift rate\b', 'Good lift, Wraith')
       <<Cat(<<Lit(<<"G", "o", "o", "d", " ", "l", "i", "f", "t", " ", "r", "a", "t", "e">>), Wb>>), <<"G", "o", "o", "d", " ", "l", "i", "f", "t", ",", " ", "W", "r", "a", "i", "t", "h">>>>,
       \* (r'And Furnace is on the bridge\b', 'Infernus is on the bridge')
       <<Cat(<<Lit(<<"A", "n", "d", " ", "F", "u", "r", "n", "a", "c", "e", " ", "i", "s", " ", "o", "n", " ", "t", "h", "e", " ", "b", "r", "i", "d", "g", "e">>), Wb>>), <<"I", "n", "f", "e", "r", "n", "u", "s", " ", "i", "s", " ", "o", "n", " ", "t", "h", "e", " ", "b", "r", "i", "d", "g", "e">>>>,
       \* (r'And Furnace is dead\b', 'Infernus is dead')
       <<Cat(<<Lit(<<"A", "n", "d", " ", "F", "u", "r", "n", "a", "c", "e", " ", "i", "s", " ", "d", "e", "a", "d">>), Wb>>), <<"I", "n", "f", "e", "r", "n", "u", "s", " ", "i", "s", " ", "d", "e", "a", "d">>>>,
       \* (r'And Furnace is under the garage\b', 'Infernus is under the garage')
       <<Cat(<<Lit(<<"A", "n", "d", " ", "F", "u", "r", "n", "a", "c", "e", " ", "i", "s", " ", "u", "n", "d", "e", "r", " ", "t", "h", "e", " ", "g", "a", "r", "a", "g", "e">>), Wb>>), <<"I", "n", "f", "e", "r", "n", "u", "s", " ", "i", "s", " ", "u", "n", "d", "e", "r", " ", "t", "h", "e", " ", "g", "a", "r", "a", "g", "e">>>>,
       \* (r'And Furnace is missing\b', 'Infernus is missing')
       <<Cat(<<Lit(<<"A", "n", "d", " ", "F", "u", "r", "n", "a", "c", "e", " ", "i", "s", " ", "m", "i", "s", "s", "i", "n", "g">>), Wb>>), <<"I", "n", "f", "e", "r", "n", "u", "s", " ", "i", "s", " ", "m", "i", "s", "s", "i", "n", "g">>>>,
       \* (r'And Furnace is almost back\b', 'Infernus is almost back')
       <<Cat(<<Lit(<<"A", "n", "d", " ", "F", "u", "r", "n", "a", "c", "e", " ", "i", "s", " ", "a", "l", "m", "o", "s", "t", " ", "b", "a", "c", "k">>), Wb>>), <<"I", "n", "f", "e", "r", "n", "u", "s", " ", "i", "s", " ", "a", "l", "m", "o", "s", "t", " ", "b", "a", "c", "k">>>>,
       \* (r'And Furnaces on the Roof\b', 'Infernus is on the roof')
       <<Cat(<<Lit(<<"A", "n", "d", " ", "F", "u", "r", "n", "a", "c", "e", "s", " ", "o", "n", " ", "t", "h", "e", " ", "R", "o", "o", "f">>), Wb>>), <<"I", "n", "f", "e", "r", "n", "u", "s", " ", "i", "s", " ", "o", "n", " ", "t", "h", "e", " ", "r", "o", "o", "f">>>>,
       \* (r"I'm Furnace is dead\b", 'Infernus is dead')
       <<Cat(<<Lit(<<"I", "'", "m", " ", "F", "u", "r", "n", "a", "c", "e", " ", "i", "s", " ", "d", "e", "a", "d">>), Wb>>), <<"I", "n", "f", "e", "r", "n", "u", "s", " ", "i", "s", " ", "d", "e", "a", "d">>>>,
       \* (r'Sten and Furnace\b', 'Stun Infernus')
       <<Cat(<<Lit(<<"S", "t", "e", "n", " ", "a", "n", "d", " ", "F", "u", "r", "n", "a", "c", "e">>), Wb>>), <<"S", "t", "u", "n", " ", "I", "n", "f", "e", "r", "n", "u", "s">>>>,
       \* (r'Stunning Furnace\b', 'Stun Infernus')
       <<Cat(<<Lit(<<"S", "t", "u", "n", "n", "i", "n", "g", " ", "F", "u", "r", "n", "a", "c", "e">>), Wb>>), <<"S", "t", "u", "n", " ", "I", "n", "f", "e", "r", "n", "u", "s">>>>,
       \* (r'Check out WoodenFurnaceBot\b', 'Check out what Infernus bought')
       <<Cat(<<Lit(<<"C", "h", "e", "c", "k", " ", "o", "u", "t", " ", "W", "o", "o", "d", "e", "n", "F", "u", "r", "n", "a", "c", "e", "B", "o", "t">>), Wb>>), <<"C", "h", "e", "c", "k", " ", "o", "u", "t", " ", "w", "h", "a", "t", " ", "I", "n", "f", "e", "r", "n", "u", "s", " ", "b", "o", "u", "g", "h", "t">>>>,
       \* (r'Page is almost back\b', 'Paige is almost back')
       <<Cat(<<Lit(<<"P", "a", "g", "e", " ", "i", "s", " ", "a", "l", "m", "o", "s", "t", " ", "b", "a", "c", "k">>), Wb>>), <<"P", "a", "i", "g", "e", " ", "i", "s", " ", "a", "l", "m", "o", "s", "t", " ", "b", "a", "c", "k">>>>,
       \* (r'Pyke is almost back\b', 'Paige is almost back')
       <<Cat(<<Lit(<<"P", "y", "k", "e", " ", "i", "s", " ", "a", "l", "m", "o", "s", "t", " ", "b", "a", "c", "k">>), Wb>>), <<"P", "a", "i", "g", "e", " ", "i", "s", " ", "a", "l", "m", "o", "s", "t", " ", "b", "a", "c", "k">>>>,
       \* (r'Page is dead\b', 'Paige is dead')
       <<Cat(<<Lit(<<"P", "a", "g", "e", " ", "i", "s", " ", "d", "e", "a", "d">>), Wb>>), <<"P", "a", "i", "g", "e", " ", "i", "s", " ", "d", "e", "a", "d">>>>,
       \* (r'Page is missing\b', 'Paige is missing')
       <<Cat(<<Lit(<<"P", "a", "g", "e", " ", "i", "s", " ", "m", "i", "s", "s", "i", "n", "g">>), Wb>>), <<"P", "a", "i", "g", "e", " ", "i", "s", " ", "m", "i", "s", "s", "i", "n", "g">>>>,
       \* (r'Pages in mid\b', "Paige's in mid")
       <<Cat(<<Lit(<<"P", "a", "g", "e", "s", " ", "i", "n", " ", "m", "i", "d">>), Wb>>), <<"P", "a", "i", "g", "e", "'", "s", " ", "i", "n", " ", "m", "i", "d">>>>,
       \* (r'Page is on top of the garage\b', "Paige's on top of the garage")
       <<Cat(<<Lit(<<"P", "a", "g", "e", " ", "i", "s", " ", "o", "n", " ", "t", "o", "p", " ", "o", "f", " ", "t", "h", "e", " ", "g", "a", "r", "a", "g", "e">>), Wb>>), <<"P", "a", "i", "g", "e", "'", "s", " ", "o", "n", " ", "t", "o", "p", " ", "o", "f", " ", "t", "h", "e", " ", "g", "a", "r", "a", "g", "e">>>>,
       \* (r'Page is on top of bid\b', "Paige's on top of mid")
       <<Cat(<<Lit(<<"P", "a", "g", "e", " ", "i", "s", " ", "o", "n", " ", "t", "o", "p", " ", "o", "f", " ", "b", "i", "d">>), Wb>>), <<"P", "a", "i", "g", "e", "'", "s", " ", "o", "n", " ", "t", "o", "p", " ", "o", "f", " ", "m", "i", "d">>>>,
       \* (r'Page is out of the garage\b', "Paige's under the garage")
       <<Cat(<<Lit(<<"P", "a", "g", "e", " ", "i", "s", " ", "o", "u", "t", " ", "o", "f", " ", "t", "h", "e", " ", "g", "a", "r", "a", "g", "e">>), Wb>>), <<"P", "a", "i", "g", "e", "'", "s", " ", "u", "n", "d", "e", "r", " ", "t", "h", "e", " ", "g", "a", "r", "a", "g", "e">>>>,
       \* (r'Page is on the roof\b', "Paige's on the roof")
       <<Cat(<<Lit(<<"P", "a", "g", "e", " ", "i", "s", " ", "o", "n", " ", "t", "h", "e", " ", "r", "o", "o", "f">>), Wb>>), <<"P", "a", "i", "g", "e", "'", "s", " ", "o", "n", " ", "t", "h", "e", " ", "r", "o", "o", "f">>>>,
       \* (r'Pages on the bridge\b', "Paige's on the bridge")
       <<Cat(<<Lit(<<"P", "a", "g", "e", "s", " ", "o", "n", " ", "t", "h", "e", " ", "b", "r", "i", "d", "g", "e">>), Wb>>), <<"P", "a", "i", "g", "e", "'", "s", " ", "o", "n", " ", "t", "h", "e", " ", "b", "r", "i", "d", "g", "e">>>>,
       \* (r'Check out what page, bud\b', 'Check out what Paige bought')
       <<Cat(<<Lit(<<"C", "h", "e", "c", "k", " ", "o", "u", "t", " ", "w", "h", "a", "t", " ", "p", "a", "g", "e", ",", " ", "b", "u", "d">>), Wb>>), <<"C", "h", "e", "c", "k", " ", "o", "u", "t", " ", "w", "h", "a", "t", " ", "P", "a", "i", "g", "e", " ", "b", "o", "u", "g", "h", "t">>>>,
       \* (r'I saw Page\b', 'I saw Paige')
       <<Cat(<<Lit(<<"I", " ", "s", "a", "w", " ", "P", "a", "g", "e">>), Wb>>), <<"I", " ", "s", "a", "w", " ", "P", "a", "i", "g", "e">>>>,
       \* (r'I see page\b', 'I see Paige')
       <<Cat(<<Lit(<<"I", " ", "s", "e", "e", " ", "p", "a", "g", "e">>), Wb>>), <<"I", " ", "s", "e", "e", " ", "P", "a", "i", "g", "e">>>>,
       \* (r'Stun page\b', 'Stun Paige')
       <<Cat(<<Lit(<<"S", "t", "u", "n", " ", "p", "a", "g", "e">>), Wb>>), <<"S", "t", "u", "n", " ", "P", "a", "i", "g", "e">>>>,
       \* (r'A young paige\b', 'Ignore Paige')
       <<Cat(<<Lit(<<"A", " ", "y", "o", "u", "n", "g", " ", "p", "a", "i", "g", "e">>), Wb>>), <<"I", "g", "n", "o", "r", "e", " ", "P", "a", "i", "g", "e">>>>,
       \* (r'Paydrews here\b', 'Paige was here')
       <<Cat(<<Lit(<<"P", "a", "y", "d", "r", "e", "w", "s", " ", "h", "e", "r", "e">>), Wb>>), <<"P", "a", "i", "g", "e", " ", "w", "a", "s", " ", "h", "e", "r", "e">>>>,
       \* (r'They took out page\b', 'They took out Paige')
       <<Cat(<<Lit(<<"T", "h", "e", "y", " ", "t", "o", "o", "k", " ", "o", "u", "t", " ", "p", "a", "g", "e">>), Wb>>), <<"T", "h", "e", "y", " ", "t", "o", "o", "k", " ", "o", "u", "t", " ", "P", "a", "i", "g", "e">>>>,
       \* (r'Victory is on top of mid\b', "Victor's on top of mid")
       <<Cat(<<Lit(<<"V", "i", "c", "t", "o", "r", "y", " ", "i", "s", " ", "o", "n", " ", "t", "o", "p", " ", "o", "f", " ", "m", "i", "d">>), Wb>>), <<"V", "i", "c", "t", "o", "r", "'", "s", " ", "o", "n", " ", "t", "o", "p", " ", "o", "f", " ", "m", "i", "d">>>>,
       \* (r'Victory is in bid\b', "Victor's in mid")
       <<Cat(<<Lit(<<"V", "i", "c", "t", "o", "r", "y", " ", "i", "s", " ", "i", "n", " ", "b", "i", "d">>), Wb>>), <<"V", "i", "c", "t", "o", "r", "'", "s", " ", "i", "n", " ", "m", "i", "d">>>>,
       \* (r'Victory is here\b', 'Victor was here')
       <<Cat(<<Lit(<<"V", "i", "c", "t", "o", "r", "y", " ", "i", "s", " ", "h", "e", "r", "e">>), Wb>>), <<"V", "i", "c", "t", "o", "r", " ", "w", "a", "s", " ", "h", "e", "r", "e">>>>,
       \* (r'Fixers on top of mid\b', "Victor's on top of mid")
       <<Cat(<<Lit(<<"F", "i", "x", "e", "r", "s", " ", "o", "n", " ", "t", "o", "p", " ", "o", "f", " ", "m", "i", "d">>), Wb>>), <<"V", "i", "c", "t", "o", "r", "'", "s", " ", "o", "n", " ", "t", "o", "p", " ", "o", "f", " ", "m", "i", "d">>>>,
       \* (r'Figs is under the garage\b', "Victor's under the garage")
       <<Cat(<<Lit(<<"F", "i", "g", "s", " ", "i", "s", " ", "u", "n", "d", "e", "r", " ", "t", "h", "e", " ", "g", "a", "r", "a", "g", "e">>), Wb>>), <<"V", "i", "c", "t", "o", "r", "'", "s", " ", "u", "n", "d", "e", "r", " ", "t", "h", "e", " ", "g", "a", "r", "a", "g", "e">>>>,
       \* (r'Stonecolicle\b', 'Stun Calico')
       <<Cat(<<Lit(<<"S", "t", "o", "n", "e", "c", "o", "l", "i", "c", "l", "e">>), Wb>>), <<"S", "t", "u", "n", " ", "C", "a", "l", "i", "c", "o">>>>,
       \* (r'Stonehage\b', 'Stun Haze')
       <<Cat(<<Lit(<<"S", "t", "o", "n", "e", "h", "a", "g", "e">>), Wb>>), <<"S", "t", "u", "n", " ", "H", "a", "z", "e">>>>,
       \* (r'Stonefathom\b', 'Stun Fathom')
       <<Cat(<<Lit(<<"S", "t", "o", "n", "e", "f", "a", "t", "h", "o", "m">>), Wb>>), <<"S", "t", "u", "n", " ", "F", "a", "t", "h", "o", "m">>>>,
       \* (r'Stoneyamato\b', 'Stun Yamato')
       <<Cat(<<Lit(<<"S", "t", "o", "n", "e", "y", "a", "m", "a", "t", "o">>), Wb>>), <<"S", "t", "u", "n", " ", "Y", "a", "m", "a", "t", "o">>>>,
       \* (r'Stonedrifter\b', 'Stun Drifter')
       <<Cat(<<Lit(<<"S", "t", "o", "n", "e", "d", "r", "i", "f", "t", "e", "r">>), Wb>>), <<"S", "t", "u", "n", " ", "D", "r", "i", "f", "t", "e", "r">>>>,
       \* (r'Stonemina\b', 'Stun Mina')
       <<Cat(<<Lit(<<"S", "t", "o", "n", "e", "m", "i", "n", "a">>), Wb>>), <<"S", "t", "u", "n", " ", "M", "i", "n", "a">>>>,
       \* (r'Stonegrin\b', 'Stun Krill')
       <<Cat(<<Lit(<<"S", "t", "o", "n", "e", "g", "r", "i", "n">>), Wb>>), <<"S", "t", "u", "n", " ", "K", "r", "i", "l", "l">>>>,
       \* (r'Stonelash\b', 'Stun Lash')
       <<Cat(<<Lit(<<"S", "t", "o", "n", "e", "l", "a", "s", "h">>), Wb>>), <<"S", "t", "u", "n", " ", "L", "a", "s", "h">>>>,
       \* (r'Stonetrapper\b', 'Stun Trapper')
       <<Cat(<<Lit(<<"S", "t", "o", "n", "e", "t", "r", "a", "p", "p", "e", "r">>), Wb>>), <<"S", "t", "u", "n", " ", "T", "r", "a", "p", "p", "e", "r">>>>,
       \* (r'Stonewrecker\b', 'Stun Wrecker')
       <<Cat(<<Lit(<<"S", "t", "o", "n", "e", "w", "r", "e", "c", "k", "e", "r">>), Wb>>), <<"S", "t", "u", "n", " ", "W", "r", "e", "c", "k", "e", "r">>>>,
       \* (r'Stonewash\b', 'Stun Lash')
       <<Cat(<<Lit(<<"S", "t", "o", "n", "e", "w", "a", "s", "h">>), Wb>>), <<"S", "t", "u", "n", " ", "L", "a", "s", "h">>>>,
       \* (r'Stonemaker\b', 'Stun Wrecker')
       <<Cat(<<Lit(<<"S", "t", "o", "n", "e", "m", "a", "k", "e", "r">>), Wb>>), <<"S", "t", "u", "n", " ", "W", "r", "e", "c", "k", "e", "r">>>>,
       \* (r'Stonemn Furnace\b', 'Stun Infernus')
       <<Cat(<<Lit(<<"S", "t", "o", "n", "e", "m", "n", " ", "F", "u", "r", "n", "a", "c", "e">>), Wb>>), <<"S", "t", "u", "n", " ", "I", "n", "f", "e", "r", "n", "u", "s">>>>,
       \* (r'Stoned bebop\b', 'Stun Bebop')
       <<Cat(<<Lit(<<"S", "t", "o", "n", "e", "d", " ", "b", "e", "b", "o", "p">>), Wb>>), <<"S", "t", "u", "n", " ", "B", "e", "b", "o", "p">>>>,
       \* (r'Stoned victor\b', 'Stun Victor')
       <<Cat(<<Lit(<<"S", "t", "o", "n", "e", "d", " ", "v", "i", "c", "t", "o", "r">>), Wb>>), <<"S", "t", "u", "n", " ", "V", "i", "c", "t", "o", "r">>>>,
       \* (r'Stoned heads\b', 'Stun Haze')
       <<Cat(<<Lit(<<"S", "t", "o", "n", "e", "d", " ", "h", "e", "a", "d", "s">>), Wb>>), <<"S", "t", "u", "n", " ", "H", "a", "z", "e">>>>,
       \* (r'Stoned rapper\b', 'Stun Trapper')
       <<Cat(<<Lit(<<"S", "t", "o", "n", "e", "d", " ", "r", "a", "p", "p", "e", "r">>), Wb>>), <<"S", "t", "u", "n", " ", "T", "r", "a", "p", "p", "e", "r">>>>,
       \* (r'Stangeist\b', 'Stun Geist')
       <<Cat(<<Lit(<<"S", "t", "a", "n", "g", "e", "i", "s", "t">>), Wb>>), <<"S", "t", "u", "n", " ", "G", "e", "i", "s", "t">>>>,
       \* (r'Standgeist\b', 'Stun Geist')
       <<Cat(<<Lit(<<"S", "t", "a", "n", "d", "g", "e", "i", "s", "t">>), Wb>>), <<"S", "t", "u", "n", " ", "G", "e", "i", "s", "t">>>>,
       \* (r'Stanton\b', 'Stun Seven')
       <<Cat(<<Lit(<<"S", "t", "a", "n", "t", "o", "n">>), Wb>>), <<"S", "t", "u", "n", " ", "S", "e", "v", "e", "n">>>>,
       \* (r'Stanship\b', 'Stun Shiv')
       <<Cat(<<Lit(<<"S", "t", "a", "n", "s", "h", "i", "p">>), Wb>>), <<"S", "t", "u", "n", " ", "S", "h", "i", "v">>>>,
       \* (r'Standom\b', 'Stun Dynamo')
       <<Cat(<<Lit(<<"S", "t", "a", "n", "d", "o", "m">>), Wb>>), <<"S", "t", "u", "n", " ", "D", "y", "n", "a", "m", "o">>>>,
       \* (r'Stand the dorm in\b', 'Stun Doorman')
       <<Cat(<<Lit(<<"S", "t", "a", "n", "d", " ", "t", "h", "e", " ", "d", "o", "r", "m", " ", "i", "n">>), Wb>>), <<"S", "t", "u", "n", " ", "D", "o", "o", "r", "m", "a", "n">>>>,
       \* (r'Stand vindikter\b', 'Stun Vindicta')
       <<Cat(<<Lit(<<"S", "t", "a", "n", "d", " ", "v", "i", "n", "d", "i", "k", "t", "e", "r">>), Wb>>), <<"S", "t", "u", "n", " ", "V", "i", "n", "d", "i", "c", "t", "a">>>>,
       \* (r'Stannv\u00e5rd\b', 'Stun Warden')
       <<Cat(<<Lit(<<"S", "t", "a", "n", "n", "v", "U+00E5", "r", "d">>), Wb>>), <<"S", "t", "u", "n", " ", "W", "a", "r", "d", "e", "n">>>>,
       \* (r'Stone 7\b', 'Stun Seven')
       <<Cat(<<Lit(<<"S", "t", "o", "n", "e", " ", "7">>), Wb>>), <<"S", "t", "u", "n", " ", "S", "e", "v", "e", "n">>>>,
       \* (r'Stump Pocket\b', 'Stun Pocket')
       <<Cat(<<Lit(<<"S", "t", "u", "m", "p", " ", "P", "o", "c", "k", "e", "t">>), Wb>>), <<"S", "t", "u", "n", " ", "P", "o", "c", "k", "e", "t">>>>,
       \* (r'Stop Mirage\b', 'Stun Mirage')
       <<Cat(<<Lit(<<"S", "t", "o", "p", " ", "M", "i", "r", "a", "g", "e">>), Wb>>), <<"S", "t", "u", "n", " ", "M", "i", "r", "a", "g", "e">>>>,
       \* (r"Startin' Cadence\b", 'Stun Cadence')
       <<Cat(<<Lit(<<"S", "t", "a", "r", "t", "i", "n", "'", " ", "C", "a", "d", "e", "n", "c", "e">>), Wb>>), <<"S", "t", "u", "n", " ", "C", "a", "d", "e", "n", "c", "e">>>>,
       \* (r'Star Wrecker\b', 'Stun Wrecker')
       <<Cat(<<Lit(<<"S", "t", "a", "r", " ", "W", "r", "e", "c", "k", "e", "r">>), Wb>>), <<"S", "t", "u", "n", " ", "W", "r", "e", "c", "k", "e", "r">>>>,
       \* (r'Stern Holliday\b', 'Stun Holliday')
       <<Cat(<<Lit(<<"S", "t", "e", "r", "n", " ", "H", "o", "l", "l", "i", "d", "a", "y">>), Wb>>), <<"S", "t", "u", "n", " ", "H", "o", "l", "l", "i", "d", "a", "y">>>>,
       \* (r'Sturmgeist\b', 'Stun Geist')
       <<Cat(<<Lit(<<"S", "t", "u", "r", "m", "g", "e", "i", "s", "t">>), Wb>>), <<"S", "t", "u", "n", " ", "G", "e", "i", "s", "t">>>>,
       \* (r'Stonkowicz\b', 'Stun Calico')
       <<Cat(<<Lit(<<"S", "t", "o", "n", "k", "o", "w", "i", "c", "z">>), Wb>>), <<"S", "t", "u", "n", " ", "C", "a", "l", "i", "c", "o">>>>,
       \* (r'Sun Holliday\b', 'Stun Holliday')
       <<Cat(<<Lit(<<"S", "u", "n", " ", "H", "o", "l", "l", "i", "d", "a", "y">>), Wb>>), <<"S", "t", "u", "n", " ", "H", "o", "l", "l", "i", "d", "a", "y">>>>,
       \* (r'Start Haze\b', 'Stun Haze')
       <<Cat(<<Lit(<<"S", "t", "a", "r", "t", " ", "H", "a", "z", "e">>), Wb>>), <<"S", "t", "u", "n", " ", "H", "a", "z", "e">>>>,
       \* (r'Start Infernus\b', 'Stun Infernus')
       <<Cat(<<Lit(<<"S", "t", "a", "r", "t", " ", "I", "n", "f", "e", "r", "n", "u", "s">>), Wb>>), <<"S", "t", "u", "n", " ", "I", "n", "f", "e", "r", "n", "u", "s">>>>,
       \* (r'Stan McGinnis\b', 'Stun McGinnis')
       <<Cat(<<Lit(<<"S", "t", "a", "n", " ", "M", "c", "G", "i", "n", "n", "i", "s">>), Wb>>), <<"S", "t", "u", "n", " ", "M", "c", "G", "i", "n", "n", "i", "s">>>>,
       \* (r'Strong Geist\b', 'Stun Geist')
       <<Cat(<<Lit(<<"S", "t", "r", "o", "n", "g", " ", "G", "e", "i", "s", "t">>), Wb>>), <<"S", "t", "u", "n", " ", "G", "e", "i", "s", "t">>>>,
       \* (r'Stand Mirage\b', 'Stun Mirage')
       <<Cat(<<Lit(<<"S", "t", "a", "n", "d", " ", "M", "i", "r", "a", "g", "e">>), Wb>>), <<"S", "t", "u", "n", " ", "M", "i", "r", "a", "g", "e">>>>,
       \* (r'Sun Wrecker\b', 'Stun Wrecker')
       <<Cat(<<Lit(<<"S", "u", "n", " ", "W", "r", "e", "c", "k", "e", "r">>), Wb>>), <<"S", "t", "u", "n", " ", "W", "r", "e", "c", "k", "e", "r">>>>,
       \* (r'Star nivi\b', 'Stun Ivy')
       <<Cat(<<Lit(<<"S", "t", "a", "r", " ", "n", "i", "v", "i">>), Wb>>), <<"S", "t", "u", "n", " ", "I", "v", "y">>>>,
       \* (r'Stun OV\b', 'Stun Ivy')
       <<Cat(<<Lit(<<"S", "t", "u", "n", " ", "O", "V">>), Wb>>), <<"S", "t", "u", "n", " ", "I", "v", "y">>>>,
       \* (r'Stun William\b', 'Stun Billy')
       <<Cat(<<Lit(<<"S", "t", "u", "n", " ", "W", "i", "l", "l", "i", "a", "m">>), Wb>>), <<"S", "t", "u", "n", " ", "B", "i", "l", "l", "y">>>>,
       \* (r'Stern Calico\b', 'Stun Calico')
       <<Cat(<<Lit(<<"S", "t", "e", "r", "n", " ", "C", "a", "l", "i", "c", "o">>), Wb>>), <<"S", "t", "u", "n", " ", "C", "a", "l", "i", "c", "o">>>>,
       \* (r'St\u0105pibop\b', 'Stun Bebop')
       <<Cat(<<Lit(<<"S", "t", "U+0105", "p", "i", "b", "o", "p">>), Wb>>), <<"S", "t", "u", "n", " ", "B", "e", "b", "o", "p">>>>,
       \* (r'S\.t\.a\.r\.s\.', 'Stun Wraith')
       <<Lit(<<"S", ".", "t", ".", "a", ".", "r", ".", "s", ".">>), <<"S", "t", "u", "n", " ", "W", "r", "a", "i", "t", "h">>>>,
       \* (r'Holladay, I can heal you\b', 'Holliday, I can heal you')
       <<Cat(<<Lit(<<"H", "o", "l", "l", "a", "d", "a", "y", ",", " ", "I", " ", "c", "a", "n", " ", "h", "e", "a", "l", " ", "y", "o", "u">>), Wb>>), <<"H", "o", "l", "l", "i", "d", "a", "y", ",", " ", "I", " ", "c", "a", "n", " ", "h", "e", "a", "l", " ", "y", "o", "u">>>>,
       \* (r'Careful, Holladay\b', 'Careful, Holliday')
       <<Cat(<<Lit(<<"C", "a", "r", "e", "f", "u", "l", ",", " ", "H", "o", "l", "l", "a", "d", "a", "y">>), Wb>>), <<"C", "a", "r", "e", "f", "u", "l", ",", " ", "H", "o", "l", "l", "i", "d", "a", "y">>>>,
       \* (r'Alara is almost back\b', 'Holliday is almost back')
       <<Cat(<<Lit(<<"A", "l", "a", "r", "a", " ", "i", "s", " ", "a", "l", "m", "o", "s", "t", " ", "b", "a", "c", "k">>), Wb>>), <<"H", "o", "l", "l", "i", "d", "a", "y", " ", "i", "s", " ", "a", "l", "m", "o", "s", "t", " ", "b", "a", "c", "k">>>>,
       \* (r'Victory is almost back\b', 'Victor is almost back')
       <<Cat(<<Lit(<<"V", "i", "c", "t", "o", "r", "y", " ", "i", "s", " ", "a", "l", "m", "o", "s", "t", " ", "b", "a", "c", "k">>), Wb>>), <<"V", "i", "c", "t", "o", "r", " ", "i", "s", " ", "a", "l", "m", "o", "s", "t", " ", "b", "a", "c", "k">>>>,
       \* (r'Victory was here\b', 'Victor was here')
       <<Cat(<<Lit(<<"V", "i", "c", "t", "o", "r", "y", " ", "w", "a", "s", " ", "h", "e", "r", "e">>), Wb>>), <<"V", "i", "c", "t", "o", "r", " ", "w", "a", "s", " ", "h", "e", "r", "e">>>>,
       \* (r'Victory is mine\b', 'Victor was here')
       <<Cat(<<Lit(<<"V", "i", "c", "t", "o", "r", "y", " ", "i", "s", " ", "m", "i", "n", "e">>), Wb>>), <<"V", "i", "c", "t", "o", "r", " ", "w", "a", "s", " ", "h", "e", "r", "e">>>>,
       \* (r'Murphy, i can hear you\b', 'Murphy, I can heal you')
       <<Cat(<<Lit(<<"M", "u", "r", "p", "h", "y", ",", " ", "i", " ", "c", "a", "n", " ", "h", "e", "a", "r", " ", "y", "o", "u">>), Wb>>), <<"M", "u", "r", "p", "h", "y", ",", " ", "I", " ", "c", "a", "n", " ", "h", "e", "a", "l", " ", "y", "o", "u">>>>,
       \* (r'i can hear ya\b', 'I can heal ya')
       <<Cat(<<Lit(<<"i", " ", "c", "a", "n", " ", "h", "e", "a", "r", " ", "y", "a">>), Wb>>), <<"I", " ", "c", "a", "n", " ", "h", "e", "a", "l", " ", "y", "a">>>>,
       \* (r"Sorry, I can't hear you\b", 'Fathom, I can heal you')
       <<Cat(<<Lit(<<"S", "o", "r", "r", "y", ",", " ", "I", " ", "c", "a", "n", "'", "t", " ", "h", "e", "a", "r", " ", "y", "o", "u">>), Wb>>), <<"F", "a", "t", "h", "o", "m", ",", " ", "I", " ", "c", "a", "n", " ", "h", "e", "a", "l", " ", "y", "o", "u">>>>,
       \* (r'Life is in mid\b', "Ivy's in mid")
       <<Cat(<<Lit(<<"L", "i", "f", "e", " ", "i", "s", " ", "i", "n", " ", "m", "i", "d">>), Wb>>), <<"I", "v", "y", "'", "s", " ", "i", "n", " ", "m", "i", "d">>>>,
       \* (r'Life is on the roof\b', "Ivy's on the roof")
       <<Cat(<<Lit(<<"L", "i", "f", "e", " ", "i", "s", " ", "o", "n", " ", "t", "h", "e", " ", "r", "o", "o", "f">>), Wb>>), <<"I", "v", "y", "'", "s", " ", "o", "n", " ", "t", "h", "e", " ", "r", "o", "o", "f">>>>,
       \* (r'Ivies in mid\b', "Ivy's in mid")
       <<Cat(<<Lit(<<"I", "v", "i", "e", "s", " ", "i", "n", " ", "m", "i", "d">>), Wb>>), <<"I", "v", "y", "'", "s", " ", "i", "n", " ", "m", "i", "d">>>>,
       \* (r'Ivies in Mid\b', "Ivy's in Mid")
       <<Cat(<<Lit(<<"I", "v", "i", "e", "s", " ", "i", "n", " ", "M", "i", "d">>), Wb>>), <<"I", "v", "y", "'", "s", " ", "i", "n", " ", "M", "i", "d">>>>,
       \* (r"Navy's on the bridge\b", "Ivy's on the bridge")
       <<Cat(<<Lit(<<"N", "a", "v", "y", "'", "s", " ", "o", "n", " ", "t", "h", "e", " ", "b", "r", "i", "d", "g", "e">>), Wb>>), <<"I", "v", "y", "'", "s", " ", "o", "n", " ", "t", "h", "e", " ", "b", "r", "i", "d", "g", "e">>>>,
       \* (r'I\.B\. was here\b', 'Ivy was here')
       <<Cat(<<Lit(<<"I", ".", "B", ".", " ", "w", "a", "s", " ", "h", "e", "r", "e">>), Wb>>), <<"I", "v", "y", " ", "w", "a", "s", " ", "h", "e", "r", "e">>>>,
       \* (r'Lily was here\b', 'Billy was here')
       <<Cat(<<Lit(<<"L", "i", "l", "y", " ", "w", "a", "s", " ", "h", "e", "r", "e">>), Wb>>), <<"B", "i", "l", "l", "y", " ", "w", "a", "s", " ", "h", "e", "r", "e">>>>,
       \* (r'Lily is dead\b', 'Billy is dead')
       <<Cat(<<Lit(<<"L", "i", "l", "y", " ", "i", "s", " ", "d", "e", "a", "d">>), Wb>>), <<"B", "i", "l", "l", "y", " ", "i", "s", " ", "d", "e", "a", "d">>>>,
       \* (r'I saw a belly\b', 'I saw Billy')
       <<Cat(<<Lit(<<"I", " ", "s", "a", "w", " ", "a", " ", "b", "e", "l", "l", "y">>), Wb>>), <<"I", " ", "s", "a", "w", " ", "B", "i", "l", "l", "y">>>>,
       \* (r'Belly was here\b', 'Billy was here')
       <<Cat(<<Lit(<<"B", "e", "l", "l", "y", " ", "w", "a", "s", " ", "h", "e", "r", "e">>), Wb>>), <<"B", "i", "l", "l", "y", " ", "w", "a", "s", " ", "h", "e", "r", "e">>>>,
       \* (r"Philly's on top of mid\b", "Billy's on top of mid")
       <<Cat(<<Lit(<<"P", "h", "i", "l", "l", "y", "'", "s", " ", "o", "n", " ", "t", "o", "p", " ", "o", "f", " ", "m", "i", "d">>), Wb>>), <<"B", "i", "l", "l", "y", "'", "s", " ", "o", "n", " ", "t", "o", "p", " ", "o", "f", " ", "m", "i", "d">>>>,
       \* (r"Philly's on the Roof\b", "Billy's on the roof")
       <<Cat(<<Lit(<<"P", "h", "i", "l", "l", "y", "'", "s", " ", "o", "n", " ", "t", "h", "e", " ", "R", "o", "o", "f">>), Wb>>), <<"B", "i", "l", "l", "y", "'", "s", " ", "o", "n", " ", "t", "h", "e", " ", "r", "o", "o", "f">>>>,
       \* (r'I see William\b', 'I see Billy')
       <<Cat(<<Lit(<<"I", " ", "s", "e", "e", " ", "W", "i", "l", "l", "i", "a", "m">>), Wb>>), <<"I", " ", "s", "e", "e", " ", "B", "i", "l", "l", "y">>>>,
       \* (r'Williams on top of their garage\b', "Billy's on top of the garage")
       <<Cat(<<Lit(<<"W", "i", "l", "l", "i", "a", "m", "s", " ", "o", "n", " ", "t", "o", "p", " ", "o", "f", " ", "t", "h", "e", "i", "r", " ", "g", "a", "r", "a", "g", "e">>), Wb>>), <<"B", "i", "l", "l", "y", "'", "s", " ", "o", "n", " ", "t", "o", "p", " ", "o", "f", " ", "t", "h", "e", " ", "g", "a", "r", "a", "g", "e">>>>,
       \* (r'I see Betty\b', 'I see Billy')
       <<Cat(<<Lit(<<"I", " ", "s", "e", "e", " ", "B", "e", "t", "t", "y">>), Wb>>), <<"I", " ", "s", "e", "e", " ", "B", "i", "l", "l", "y">>>>,
       \* (r"Let's take out Benny\b", "Let's take out Billy")
       <<Cat(<<Lit(<<"L", "e", "t", "'", "s", " ", "t", "a", "k", "e", " ", "o", "u", "t", " ", "B", "e", "n", "n", "y">>), Wb>>), <<"L", "e", "t", "'", "s", " ", "t", "a", "k", "e", " ", "o", "u", "t", " ", "B", "i", "l", "l", "y">>>>,
       \* (r'Ghibli is almost back\b', 'Billy is almost back')
       <<Cat(<<Lit(<<"G", "h", "i", "b", "l", "i", " ", "i", "s", " ", "a", "l", "m", "o", "s", "t", " ", "b", "a", "c", "k">>), Wb>>), <<"B", "i", "l", "l", "y", " ", "i", "s", " ", "a", "l", "m", "o", "s", "t", " ", "b", "a", "c", "k">>>>,
       \* (r'Careful, Maynard\b', 'Careful, Mina')
       <<Cat(<<Lit(<<"C", "a", "r", "e", "f", "u", "l", ",", " ", "M", "a", "y", "n", "a", "r", "d">>), Wb>>), <<"C", "a", "r", "e", "f", "u", "l", ",", " ", "M", "i", "n", "a">>>>,
       \* (r'Minos on top of mid\b', "Mina's on top of mid")
       <<Cat(<<Lit(<<"M", "i", "n", "o", "s", " ", "o", "n", " ", "t", "o", "p", " ", "o", "f", " ", "m", "i", "d">>), Wb>>), <<"M", "i", "n", "a", "'", "s", " ", "o", "n", " ", "t", "o", "p", " ", "o", "f", " ", "m", "i", "d">>>>,
       \* (r"Minerva's dead\b", 'Mina is dead')
       <<Cat(<<Lit(<<"M", "i", "n", "e", "r", "v", "a", "'", "s", " ", "d", "e", "a", "d">>), Wb>>), <<"M", "i", "n", "a", " ", "i", "s", " ", "d", "e", "a", "d">>>>,
       \* (r"Minerva's here\b", 'Mina was here')
       <<Cat(<<Lit(<<"M", "i", "n", "e", "r", "v", "a", "'", "s", " ", "h", "e", "r", "e">>), Wb>>), <<"M", "i", "n", "a", " ", "w", "a", "s", " ", "h", "e", "r", "e">>>>,
       \* (r'Check out what May have bought\b', 'Check out what Mina bought')
       <<Cat(<<Lit(<<"C", "h", "e", "c", "k", " ", "o", "u", "t", " ", "w", "h", "a", "t", " ", "M", "a", "y", " ", "h", "a", "v", "e", " ", "b", "o", "u", "g", "h", "t">>), Wb>>), <<"C", "h", "e", "c", "k", " ", "o", "u", "t", " ", "w", "h", "a", "t", " ", "M", "i", "n", "a", " ", "b", "o", "u", "g", "h", "t">>>>,
       \* (r'Check out what Mino bought\b', 'Check out what Mina bought')
       <<Cat(<<Lit(<<"C", "h", "e", "c", "k", " ", "o", "u", "t", " ", "w", "h", "a", "t", " ", "M", "i", "n", "o", " ", "b", "o", "u", "g", "h", "t">>), Wb>>), <<"C", "h", "e", "c", "k", " ", "o", "u", "t", " ", "w", "h", "a", "t", " ", "M", "i", "n", "a", " ", "b", "o", "u", "g", "h", "t">>>>,
       \* (r'I see nina\b', 'I see Mina')
       <<Cat(<<Lit(<<"I", " ", "s", "e", "e", " ", "n", "i", "n", "a">>), Wb>>), <<"I", " ", "s", "e", "e", " ", "M", "i", "n", "a">>>>,
       \* (r"Nina's on that bridge\b", "Mina's on the bridge")
       <<Cat(<<Lit(<<"N", "i", "n", "a", "'", "s", " ", "o", "n", " ", "t", "h", "a", "t", " ", "b", "r", "i", "d", "g", "e">>), Wb>>), <<"M", "i", "n", "a", "'", "s", " ", "o", "n", " ", "t", "h", "e", " ", "b", "r", "i", "d", "g", "e">>>>,
       \* (r"Nina's on the roof\b", "Mina's on the roof")
       <<Cat(<<Lit(<<"N", "i", "n", "a", "'", "s", " ", "o", "n", " ", "t", "h", "e", " ", "r", "o", "o", "f">>), Wb>>), <<"M", "i", "n", "a", "'", "s", " ", "o", "n", " ", "t", "h", "e", " ", "r", "o", "o", "f">>>>,
       \* (r"Nina's missing\b", "Mina's missing")
       <<Cat(<<Lit(<<"N", "i", "n", "a", "'", "s", " ", "m", "i", "s", "s", "i", "n", "g">>), Wb>>), <<"M", "i", "n", "a", "'", "s", " ", "m", "i", "s", "s", "i", "n", "g">>>>,
       \* (r"Nino's here\b", 'Mina was here')
       <<Cat(<<Lit(<<"N", "i", "n", "o", "'", "s", " ", "h", "e", "r", "e">>), Wb>>), <<"M", "i", "n", "a", " ", "w", "a", "s", " ", "h", "e", "r", "e">>>>,
       \* (r'Meet us on the bridge\b', "Mina's on the bridge")
       <<Cat(<<Lit(<<"M", "e", "e", "t", " ", "u", "s", " ", "o", "n", " ", "t", "h", "e", " ", "b", "r", "i", "d", "g", "e">>), Wb>>), <<"M", "i", "n", "a", "'", "s", " ", "o", "n", " ", "t", "h", "e", " ", "b", "r", "i", "d", "g", "e">>>>,
       \* (r'Meet us in Mid\b', "Mina's in mid")
       <<Cat(<<Lit(<<"M", "e", "e", "t", " ", "u", "s", " ", "i", "n", " ", "M", "i", "d">>), Wb>>), <<"M", "i", "n", "a", "'", "s", " ", "i", "n", " ", "m", "i", "d">>>>,
       \* (r'Minis on top of the garage\b', "Mina's on top of the garage")
       <<Cat(<<Lit(<<"M", "i", "n", "i", "s", " ", "o", "n", " ", "t", "o", "p", " ", "o", "f", " ", "t", "h", "e", " ", "g", "a", "r", "a", "g", "e">>), Wb>>), <<"M", "i", "n", "a", "'", "s", " ", "o", "n", " ", "t", "o", "p", " ", "o", "f", " ", "t", "h", "e", " ", "g", "a", "r", "a", "g", "e">>>>,
       \* (r"Menu's on top of da garage\b", "Mina's on top of the garage")
       <<Cat(<<Lit(<<"M", "e", "n", "u", "'", "s", " ", "o", "n", " ", "t", "o", "p", " ", "o", "f", " ", "d", "a", " ", "g", "a", "r", "a", "g", "e">>), Wb>>), <<"M", "i", "n", "a", "'", "s", " ", "o", "n", " ", "t", "o", "p", " ", "o", "f", " ", "t", "h", "e", " ", "g", "a", "r", "a", "g", "e">>>>,
       \* (r'Minus end mid\b', "Mina's in mid")
       <<Cat(<<Lit(<<"M", "i", "n", "u", "s", " ", "e", "n", "d", " ", "m", "i", "d">>), Wb>>), <<"M", "i", "n", "a", "'", "s", " ", "i", "n", " ", "m", "i", "d">>>>,
       \* (r'Miners in Mid\b', "Mina's in mid")
       <<Cat(<<Lit(<<"M", "i", "n", "e", "r", "s", " ", "i", "n", " ", "M", "i", "d">>), Wb>>), <<"M", "i", "n", "a", "'", "s", " ", "i", "n", " ", "m", "i", "d">>>>,
       \* (r'Mid is in mid\b', "Mina's in mid")
       <<Cat(<<Lit(<<"M", "i", "d", " ", "i", "s", " ", "i", "n", " ", "m", "i", "d">>), Wb>>), <<"M", "i", "n", "a", "'", "s", " ", "i", "n", " ", "m", "i", "d">>>>,
       \* (r'Meat is missing\b', 'Mina is missing')
       <<Cat(<<Lit(<<"M", "e", "a", "t", " ", "i", "s", " ", "m", "i", "s", "s", "i", "n", "g">>), Wb>>), <<"M", "i", "n", "a", " ", "i", "s", " ", "m", "i", "s", "s", "i", "n", "g">>>>,
       \* (r'Mater is here\b', 'Mina was here')
       <<Cat(<<Lit(<<"M", "a", "t", "e", "r", " ", "i", "s", " ", "h", "e", "r", "e">>), Wb>>), <<"M", "i", "n", "a", " ", "w", "a", "s", " ", "h", "e", "r", "e">>>>,
       \* (r"Let's take out Bucket\b", "Let's take out Pocket")
       <<Cat(<<Lit(<<"L", "e", "t", "'", "s", " ", "t", "a", "k", "e", " ", "o", "u", "t", " ", "B", "u", "c", "k", "e", "t">>), Wb>>), <<"L", "e", "t", "'", "s", " ", "t", "a", "k", "e", " ", "o", "u", "t", " ", "P", "o", "c", "k", "e", "t">>>>,
       \* (r'Puckett is in mid\b', 'Pocket is in mid')
       <<Cat(<<Lit(<<"P", "u", "c", "k", "e", "t", "t", " ", "i", "s", " ", "i", "n", " ", "m", "i", "d">>), Wb>>), <<"P", "o", "c", "k", "e", "t", " ", "i", "s", " ", "i", "n", " ", "m", "i", "d">>>>,
       \* (r'Puckett is dead\b', 'Pocket is dead')
       <<Cat(<<Lit(<<"P", "u", "c", "k", "e", "t", "t", " ", "i", "s", " ", "d", "e", "a", "d">>), Wb>>), <<"P", "o", "c", "k", "e", "t", " ", "i", "s", " ", "d", "e", "a", "d">>>>,
       \* (r'Buckets on top of the garage\b', "Pocket's on top of the garage")
       <<Cat(<<Lit(<<"B", "u", "c", "k", "e", "t", "s", " ", "o", "n", " ", "t", "o", "p", " ", "o", "f", " ", "t", "h", "e", " ", "g", "a", "r", "a", "g", "e">>), Wb>>), <<"P", "o", "c", "k", "e", "t", "'", "s", " ", "o", "n", " ", "t", "o", "p", " ", "o", "f", " ", "t", "h", "e", " ", "g", "a", "r", "a", "g", "e">>>>,
       \* (r'Careful, Bucket\b', 'Careful, Pocket')
       <<Cat(<<Lit(<<"C", "a", "r", "e", "f", "u", "l", ",", " ", "B", "u", "c", "k", "e", "t">>), Wb>>), <<"C", "a", "r", "e", "f", "u", "l", ",", " ", "P", "o", "c", "k", "e", "t">>>>,
       \* (r'Harkin is almost back\b', 'Pocket is almost back')
       <<Cat(<<Lit(<<"H", "a", "r", "k", "i", "n", " ", "i", "s", " ", "a", "l", "m", "o", "s", "t", " ", "b", "a", "c", "k">>), Wb>>), <<"P", "o", "c", "k", "e", "t", " ", "i", "s", " ", "a", "l", "m", "o", "s", "t", " ", "b", "a", "c", "k">>>>,
       \* (r'Puck is dead\b', 'Pocket is dead')
       <<Cat(<<Lit(<<"P", "u", "c", "k", " ", "i", "s", " ", "d", "e", "a", "d">>), Wb>>), <<"P", "o", "c", "k", "e", "t", " ", "i", "s", " ", "d", "e", "a", "d">>>>,
       \* (r'Target reveal you\b', 'Pocket, I can heal you')
       <<Cat(<<Lit(<<"T", "a", "r", "g", "e", "t", " ", "r", "e", "v", "e", "a", "l", " ", "y", "o", "u">>), Wb>>), <<"P", "o", "c", "k", "e", "t", ",", " ", "I", " ", "c", "a", "n", " ", "h", "e", "a", "l", " ", "y", "o", "u">>>>,
       \* (r'Check out what BucketBot\b', 'Check out what Pocket bought')
       <<Cat(<<Lit(<<"C", "h", "e", "c", "k", " ", "o", "u", "t", " ", "w", "h", "a", "t", " ", "B", "u", "c", "k", "e", "t", "B", "o", "t">>), Wb>>), <<"C", "h", "e", "c", "k", " ", "o", "u", "t", " ", "w", "h", "a", "t", " ", "P", "o", "c", "k", "e", "t", " ", "b", "o", "u", "g", "h", "t">>>>,
       \* (r"Guys, it's on top of the garage\b", "Geist's on top of the garage")
       <<Cat(<<Lit(<<"G", "u", "y", "s", ",", " ", "i", "t", "'", "s", " ", "o", "n", " ", "t", "o", "p", " ", "o", "f", " ", "t", "h", "e", " ", "g", "a", "r", "a", "g", "e">>), Wb>>), <<"G", "e", "i", "s", "t", "'", "s", " ", "o", "n", " ", "t", "o", "p", " ", "o", "f", " ", "t", "h", "e", " ", "g", "a", "r", "a", "g", "e">>>>,
       \* (r"Guys, it's just on the roof\b", 'Geist is on the roof')
       <<Cat(<<Lit(<<"G", "u", "y", "s", ",", " ", "i", "t", "'", "s", " ", "j", "u", "s", "t", " ", "o", "n", " ", "t", "h", "e", " ", "r", "o", "o", "f">>), Wb>>), <<"G", "e", "i", "s", "t", " ", "i", "s", " ", "o", "n", " ", "t", "h", "e", " ", "r", "o", "o", "f">>>>,
       \* (r'Check out what guys bought\b', 'Check out what Geist bought')
       <<Cat(<<Lit(<<"C", "h", "e", "c", "k", " ", "o", "u", "t", " ", "w", "h", "a", "t", " ", "g", "u", "y", "s", " ", "b", "o", "u", "g", "h", "t">>), Wb>>), <<"C", "h", "e", "c", "k", " ", "o", "u", "t", " ", "w", "h", "a", "t", " ", "G", "e", "i", "s", "t", " ", "b", "o", "u", "g", "h", "t">>>>,
       \* (r"Guys, he's almost back\b", 'Geist is almost back')
       <<Cat(<<Lit(<<"G", "u", "y", "s", ",", " ", "h", "e", "'", "s", " ", "a", "l", "m", "o", "s", "t", " ", "b", "a", "c", "k">>), Wb>>), <<"G", "e", "i", "s", "t", " ", "i", "s", " ", "a", "l", "m", "o", "s", "t", " ", "b", "a", "c", "k">>>>,
       \* (r"I'm with you guys\b", "I'm with you, Geist")
       <<Cat(<<Lit(<<"I", "'", "m", " ", "w", "i", "t", "h", " ", "y", "o", "u", " ", "g", "u", "y", "s">>), Wb>>), <<"I", "'", "m", " ", "w", "i", "t", "h", " ", "y", "o", "u", ",", " ", "G", "e", "i", "s", "t">>>>,
       \* (r"Guys, it's on the roof\b", 'Geist is on the roof')
       <<Cat(<<Lit(<<"G", "u", "y", "s", ",", " ", "i", "t", "'", "s", " ", "o", "n", " ", "t", "h", "e", " ", "r", "o", "o", "f">>), Wb>>), <<"G", "e", "i", "s", "t", " ", "i", "s", " ", "o", "n", " ", "t", "h", "e", " ", "r", "o", "o", "f">>>>,
       \* (r"Guys, it's on the bridge\b", 'Geist is on the bridge')
       <<Cat(<<Lit(<<"G", "u", "y", "s", ",", " ", "i", "t", "'", "s", " ", "o", "n", " ", "t", "h", "e", " ", "b", "r", "i", "d", "g", "e">>), Wb>>), <<"G", "e", "i", "s", "t", " ", "i", "s", " ", "o", "n", " ", "t", "h", "e", " ", "b", "r", "i", "d", "g", "e">>>>,
       \* (r'Gus missing\b', 'Geist missing')
       <<Cat(<<Lit(<<"G", "u", "s", " ", "m", "i", "s", "s", "i", "n", "g">>), Wb>>), <<"G", "e", "i", "s", "t", " ", "m", "i", "s", "s", "i", "n", "g">>>>,
       \* (r'Geis in Mid\b', 'Geist in mid')
       <<Cat(<<Lit(<<"G", "e", "i", "s", " ", "i", "n", " ", "M", "i", "d">>), Wb>>), <<"G", "e", "i", "s", "t", " ", "i", "n", " ", "m", "i", "d">>>>,
       \* (r'Careful, guys\b', 'Careful, Geist')
       <<Cat(<<Lit(<<"C", "a", "r", "e", "f", "u", "l", ",", " ", "g", "u", "y", "s">>), Wb>>), <<"C", "a", "r", "e", "f", "u", "l", ",", " ", "G", "e", "i", "s", "t">>>>,
       \* (r'Guys, under the garage\b', 'Geist under the garage')
       <<Cat(<<Lit(<<"G", "u", "y", "s", ",", " ", "u", "n", "d", "e", "r", " ", "t", "h", "e", " ", "g", "a", "r", "a", "g", "e">>), Wb>>), <<"G", "e", "i", "s", "t", " ", "u", "n", "d", "e", "r", " ", "t", "h", "e", " ", "g", "a", "r", "a", "g", "e">>>>,
       \* (r'The Guinness was here\b', 'McGinnis was here')
       <<Cat(<<Lit(<<"T", "h", "e", " ", "G", "u", "i", "n", "n", "e", "s", "s", " ", "w", "a", "s", " ", "h", "e", "r", "e">>), Wb>>), <<"M", "c", "G", "i", "n", "n", "i", "s", " ", "w", "a", "s", " ", "h", "e", "r", "e">>>>,
       \* (r'The Guinness is dead\b', 'McGinnis is dead')
       <<Cat(<<Lit(<<"T", "h", "e", " ", "G", "u", "i", "n", "n", "e", "s", "s", " ", "i", "s", " ", "d", "e", "a", "d">>), Wb>>), <<"M", "c", "G", "i", "n", "n", "i", "s", " ", "i", "s", " ", "d", "e", "a", "d">>>>,
       \* (r'A Guinness is missing\b', 'McGinnis is missing')
       <<Cat(<<Lit(<<"A", " ", "G", "u", "i", "n", "n", "e", "s", "s", " ", "i", "s", " ", "m", "i", "s", "s", "i", "n", "g">>), Wb>>), <<"M", "c", "G", "i", "n", "n", "i", "s", " ", "i", "s", " ", "m", "i", "s", "s", "i", "n", "g">>>>,
       \* (r'I saw him in Guinness\b', 'I saw McGinnis')
       <<Cat(<<Lit(<<"I", " ", "s", "a", "w", " ", "h", "i", "m", " ", "i", "n", " ", "G", "u", "i", "n", "n", "e", "s", "s">>), Wb>>), <<"I", " ", "s", "a", "w", " ", "M", "c", "G", "i", "n", "n", "i", "s">>>>,
       \* (r'McKinnis is in mid\b', 'McGinnis is in mid')
       <<Cat(<<Lit(<<"M", "c", "K", "i", "n", "n", "i", "s", " ", "i", "s", " ", "i", "n", " ", "m", "i", "d">>), Wb>>), <<"M", "c", "G", "i", "n", "n", "i", "s", " ", "i", "s", " ", "i", "n", " ", "m", "i", "d">>>>,
       \* (r'The Guinness is under the garage\b', 'McGinnis is under the garage')
       <<Cat(<<Lit(<<"T", "h", "e", " ", "G", "u", "i", "n", "n", "e", "s", "s", " ", "i", "s", " ", "u", "n", "d", "e", "r", " ", "t", "h", "e", " ", "g", "a", "r", "a", "g", "e">>), Wb>>), <<"M", "c", "G", "i", "n", "n", "i", "s", " ", "i", "s", " ", "u", "n", "d", "e", "r", " ", "t", "h", "e", " ", "g", "a", "r", "a", "g", "e">>>>,
       \* (r'My Guinness is missing\b', 'McGinnis is missing')
       <<Cat(<<Lit(<<"M", "y", " ", "G", "u", "i", "n", "n", "e", "s", "s", " ", "i", "s", " ", "m", "i", "s", "s", "i", "n", "g">>), Wb>>), <<"M", "c", "G", "i", "n", "n", "i", "s", " ", "i", "s", " ", "m", "i", "s", "s", "i", "n", "g">>>>,
       \* (r'Mark Guinness is dead\b', 'McGinnis is dead')
       <<Cat(<<Lit(<<"M", "a", "r", "k", " ", "G", "u", "i", "n", "n", "e", "s", "s", " ", "i", "s", " ", "d", "e", "a", "d">>), Wb>>), <<"M", "c", "G", "i", "n", "n", "i", "s", " ", "i", "s", " ", "d", "e", "a", "d">>>>,
       \* (r'Ignore Mark Guinness\b', 'Ignore McGinnis')
       <<Cat(<<Lit(<<"I", "g", "n", "o", "r", "e", " ", "M", "a", "r", "k", " ", "G", "u", "i", "n", "n", "e", "s", "s">>), Wb>>), <<"I", "g", "n", "o", "r", "e", " ", "M", "c", "G", "i", "n", "n", "i", "s">>>>,
       \* (r'Care for Mark Guinness\b', 'Careful, McGinnis')
       <<Cat(<<Lit(<<"C", "a", "r", "e", " ", "f", "o", "r", " ", "M", "a", "r", "k", " ", "G", "u", "i", "n", "n", "e", "s", "s">>), Wb>>), <<"C", "a", "r", "e", "f", "u", "l", ",", " ", "M", "c", "G", "i", "n", "n", "i", "s">>>>,
       \* (r'Great talents in mid\b', "Grey Talon's in mid")
       <<Cat(<<Lit(<<"G", "r", "e", "a", "t", " ", "t", "a", "l", "e", "n", "t", "s", " ", "i", "n", " ", "m", "i", "d">>), Wb>>), <<"G", "r", "e", "y", " ", "T", "a", "l", "o", "n", "'", "s", " ", "i", "n", " ", "m", "i", "d">>>>,
       \* (r'Kraytalan is almost back\b', 'Grey Talon is almost back')
       <<Cat(<<Lit(<<"K", "r", "a", "y", "t", "a", "l", "a", "n", " ", "i", "s", " ", "a", "l", "m", "o", "s", "t", " ", "b", "a", "c", "k">>), Wb>>), <<"G", "r", "e", "y", " ", "T", "a", "l", "o", "n", " ", "i", "s", " ", "a", "l", "m", "o", "s", "t", " ", "b", "a", "c", "k">>>>,
       \* (r"Great talent's missing\b", "Grey Talon's missing")
       <<Cat(<<Lit(<<"G", "r", "e", "a", "t", " ", "t", "a", "l", "e", "n", "t", "'", "s", " ", "m", "i", "s", "s", "i", "n", "g">>), Wb>>), <<"G", "r", "e", "y", " ", "T", "a", "l", "o", "n", "'", "s", " ", "m", "i", "s", "s", "i", "n", "g">>>>,
       \* (r'Great talents on top of the garage\b', "Grey Talon's on top of the garage")
       <<Cat(<<Lit(<<"G", "r", "e", "a", "t", " ", "t", "a", "l", "e", "n", "t", "s", " ", "o", "n", " ", "t", "o", "p", " ", "o", "f", " ", "t", "h", "e", " ", "g", "a", "r", "a", "g", "e">>), Wb>>), <<"G", "r", "e", "y", " ", "T", "a", "l", "o", "n", "'", "s", " ", "o", "n", " ", "t", "o", "p", " ", "o", "f", " ", "t", "h", "e", " ", "g", "a", "r", "a", "g", "e">>>>,
       \* (r'I saw great talent\b', 'I saw Grey Talon')
       <<Cat(<<Lit(<<"I", " ", "s", "a", "w", " ", "g", "r", "e", "a", "t", " ", "t", "a", "l", "e", "n", "t">>), Wb>>), <<"I", " ", "s", "a", "w", " ", "G", "r", "e", "y", " ", "T", "a", "l", "o", "n">>>>,
       \* (r'I see great talent\b', 'I see Grey Talon')
       <<Cat(<<Lit(<<"I", " ", "s", "e", "e", " ", "g", "r", "e", "a", "t", " ", "t", "a", "l", "e", "n", "t">>), Wb>>), <<"I", " ", "s", "e", "e", " ", "G", "r", "e", "y", " ", "T", "a", "l", "o", "n">>>>,
       \* (r'Great Talent is almost back\b', 'Grey Talon is almost back')
       <<Cat(<<Lit(<<"G", "r", "e", "a", "t", " ", "T", "a", "l", "e", "n", "t", " ", "i", "s", " ", "a", "l", "m", "o", "s", "t", " ", "b", "a", "c", "k">>), Wb>>), <<"G", "r", "e", "y", " ", "T", "a", "l", "o", "n", " ", "i", "s", " ", "a", "l", "m", "o", "s", "t", " ", "b", "a", "c", "k">>>>,
       \* (r"Great talent's under the garage\b", "Grey Talon's under the garage")
       <<Cat(<<Lit(<<"G", "r", "e", "a", "t", " ", "t", "a", "l", "e", "n", "t", "'", "s", " ", "u", "n", "d", "e", "r", " ", "t", "h", "e", " ", "g", "a", "r", "a", "g", "e">>), Wb>>), <<"G", "r", "e", "y", " ", "T", "a", "l", "o", "n", "'", "s", " ", "u", "n", "d", "e", "r", " ", "t", "h", "e", " ", "g", "a", "r", "a", "g", "e">>>>,
       \* (r"Great talent's on the roof\b", "Grey Talon's on the roof")
       <<Cat(<<Lit(<<"G", "r", "e", "a", "t", " ", "t", "a", "l", "e", "n", "t", "'", "s", " ", "o", "n", " ", "t", "h", "e", " ", "r", "o", "o", "f">>), Wb>>), <<"G", "r", "e", "y", " ", "T", "a", "l", "o", "n", "'", "s", " ", "o", "n", " ", "t", "h", "e", " ", "r", "o", "o", "f">>>>,
       \* (r'Great talent on the bridge\b', "Grey Talon's on the bridge")
       <<Cat(<<Lit(<<"G", "r", "e", "a", "t", " ", "t", "a", "l", "e", "n", "t", " ", "o", "n", " ", "t", "h", "e", " ", "b", "r", "i", "d", "g", "e">>), Wb>>), <<"G", "r", "e", "y", " ", "T", "a", "l", "o", "n", "'", "s", " ", "o", "n", " ", "t", "h", "e", " ", "b", "r", "i", "d", "g", "e">>>>,
       \* (r'Great talents on top of me\b', "Grey Talon's on top of mid")
       <<Cat(<<Lit(<<"G", "r", "e", "a", "t", " ", "t", "a", "l", "e", "n", "t", "s", " ", "o", "n", " ", "t", "o", "p", " ", "o", "f", " ", "m", "e">>), Wb>>), <<"G", "r", "e", "y", " ", "T", "a", "l", "o", "n", "'", "s", " ", "o", "n", " ", "t", "o", "p", " ", "o", "f", " ", "m", "i", "d">>>>,
       \* (r'Care for bed of dogs\b', 'Careful, Paradox')
       <<Cat(<<Lit(<<"C", "a", "r", "e", " ", "f", "o", "r", " ", "b", "e", "d", " ", "o", "f", " ", "d", "o", "g", "s">>), Wb>>), <<"C", "a", "r", "e", "f", "u", "l", ",", " ", "P", "a", "r", "a", "d", "o", "x">>>>,
       \* (r'Careful pendogs\b', 'Careful, Paradox')
       <<Cat(<<Lit(<<"C", "a", "r", "e", "f", "u", "l", " ", "p", "e", "n", "d", "o", "g", "s">>), Wb>>), <<"C", "a", "r", "e", "f", "u", "l", ",", " ", "P", "a", "r", "a", "d", "o", "x">>>>,
       \* (r"Let's take out Peridox\b", "Let's take out Paradox")
       <<Cat(<<Lit(<<"L", "e", "t", "'", "s", " ", "t", "a", "k", "e", " ", "o", "u", "t", " ", "P", "e", "r", "i", "d", "o", "x">>), Wb>>), <<"L", "e", "t", "'", "s", " ", "t", "a", "k", "e", " ", "o", "u", "t", " ", "P", "a", "r", "a", "d", "o", "x">>>>,
       \* (r'Last was here\b', 'Lash was here')
       <<Cat(<<Lit(<<"L", "a", "s", "t", " ", "w", "a", "s", " ", "h", "e", "r", "e">>), Wb>>), <<"L", "a", "s", "h", " ", "w", "a", "s", " ", "h", "e", "r", "e">>>>,
       \* (r'Lars is on the bridge\b', 'Lash is on the bridge')
       <<Cat(<<Lit(<<"L", "a", "r", "s", " ", "i", "s", " ", "o", "n", " ", "t", "h", "e", " ", "b", "r", "i", "d", "g", "e">>), Wb>>), <<"L", "a", "s", "h", " ", "i", "s", " ", "o", "n", " ", "t", "h", "e", " ", "b", "r", "i", "d", "g", "e">>>>,
       \* (r'Glasses on top of mid\b', "Lash's on top of mid")
       <<Cat(<<Lit(<<"G", "l", "a", "s", "s", "e", "s", " ", "o", "n", " ", "t", "o", "p", " ", "o", "f", " ", "m", "i", "d">>), Wb>>), <<"L", "a", "s", "h", "'", "s", " ", "o", "n", " ", "t", "o", "p", " ", "o", "f", " ", "m", "i", "d">>>>,
       \* (r"Let's take out Lush\b", "Let's take out Lash")
       <<Cat(<<Lit(<<"L", "e", "t", "'", "s", " ", "t", "a", "k", "e", " ", "o", "u", "t", " ", "L", "u", "s", "h">>), Wb>>), <<"L", "e", "t", "'", "s", " ", "t", "a", "k", "e", " ", "o", "u", "t", " ", "L", "a", "s", "h">>>>,
       \* (r'Lush, I can heal you\b', 'Lash, I can heal you')
       <<Cat(<<Lit(<<"L", "u", "s", "h", ",", " ", "I", " ", "c", "a", "n", " ", "h", "e", "a", "l", " ", "y", "o", "u">>), Wb>>), <<"L", "a", "s", "h", ",", " ", "I", " ", "c", "a", "n", " ", "h", "e", "a", "l", " ", "y", "o", "u">>>>,
       \* (r'Lush is almost back\b', 'Lash is almost back')
       <<Cat(<<Lit(<<"L", "u", "s", "h", " ", "i", "s", " ", "a", "l", "m", "o", "s", "t", " ", "b", "a", "c", "k">>), Wb>>), <<"L", "a", "s", "h", " ", "i", "s", " ", "a", "l", "m", "o", "s", "t", " ", "b", "a", "c", "k">>>>,
       \* (r'Careful, Lush\b', 'Careful, Lash')
       <<Cat(<<Lit(<<"C", "a", "r", "e", "f", "u", "l", ",", " ", "L", "u", "s", "h">>), Wb>>), <<"C", "a", "r", "e", "f", "u", "l", ",", " ", "L", "a", "s", "h">>>>,
       \* (r'Lush in mid\b', 'Lash in mid')
       <<Cat(<<Lit(<<"L", "u", "s", "h", " ", "i", "n", " ", "m", "i", "d">>), Wb>>), <<"L", "a", "s", "h", " ", "i", "n", " ", "m", "i", "d">>>>,
       \* (r'Last is in mid\b', 'Lash is in mid')
       <<Cat(<<Lit(<<"L", "a", "s", "t", " ", "i", "s", " ", "i", "n", " ", "m", "i", "d">>), Wb>>), <<"L", "a", "s", "h", " ", "i", "s", " ", "i", "n", " ", "m", "i", "d">>>>,
       \* (r'Nash is on top of the garage\b', 'Lash is on top of the garage')
       <<Cat(<<Lit(<<"N", "a", "s", "h", " ", "i", "s", " ", "o", "n", " ", "t", "o", "p", " ", "o", "f", " ", "t", "h", "e", " ", "g", "a", "r", "a", "g", "e">>), Wb>>), <<"L", "a", "s", "h", " ", "i", "s", " ", "o", "n", " ", "t", "o", "p", " ", "o", "f", " ", "t", "h", "e", " ", "g", "a", "r", "a", "g", "e">>>>,
       \* (r'Nash, I can heal you\b', 'Lash, I can heal you')
       <<Cat(<<Lit(<<"N", "a", "s", "h", ",", " ", "I", " ", "c", "a", "n", " ", "h", "e", "a", "l", " ", "y", "o", "u">>), Wb>>), <<"L", "a", "s", "h", ",", " ", "I", " ", "c", "a", "n", " ", "h", "e", "a", "l", " ", "y", "o", "u">>>>,
       \* (r'Careful, Nash\b', 'Careful, Lash')
       <<Cat(<<Lit(<<"C", "a", "r", "e", "f", "u", "l", ",", " ", "N", "a", "s", "h">>), Wb>>), <<"C", "a", "r", "e", "f", "u", "l", ",", " ", "L", "a", "s", "h">>>>,
       \* (r"Laszlo's here\b", 'Lash was here')
       <<Cat(<<Lit(<<"L", "a", "s", "z", "l", "o", "'", "s", " ", "h", "e", "r", "e">>), Wb>>), <<"L", "a", "s", "h", " ", "w", "a", "s", " ", "h", "e", "r", "e">>>>,
       \* (r'Careful, Laz\b', 'Careful, Lash')
       <<Cat(<<Lit(<<"C", "a", "r", "e", "f", "u", "l", ",", " ", "L", "a", "z">>), Wb>>), <<"C", "a", "r", "e", "f", "u", "l", ",", " ", "L", "a", "s", "h">>>>,
       \* (r'Check out what Handsome bought\b', 'Check out what Shiv bought')
       <<Cat(<<Lit(<<"C", "h", "e", "c", "k", " ", "o", "u", "t", " ", "w", "h", "a", "t", " ", "H", "a", "n", "d", "s", "o", "m", "e", " ", "b", "o", "u", "g", "h", "t">>), Wb>>), <<"C", "h", "e", "c", "k", " ", "o", "u", "t", " ", "w", "h", "a", "t", " ", "S", "h", "i", "v", " ", "b", "o", "u", "g", "h", "t">>>>,
       \* (r'I saw a sheep\b', 'I saw Shiv')
       <<Cat(<<Lit(<<"I", " ", "s", "a", "w", " ", "a", " ", "s", "h", "e", "e", "p">>), Wb>>), <<"I", " ", "s", "a", "w", " ", "S", "h", "i", "v">>>>,
       \* (r'Careful, Siv\b', 'Careful, Shiv')
       <<Cat(<<Lit(<<"C", "a", "r", "e", "f", "u", "l", ",", " ", "S", "i", "v">>), Wb>>), <<"C", "a", "r", "e", "f", "u", "l", ",", " ", "S", "h", "i", "v">>>>,
       \* (r"She's in need\b", "Shiv's in mid")
       <<Cat(<<Lit(<<"S", "h", "e", "'", "s", " ", "i", "n", " ", "n", "e", "e", "d">>), Wb>>), <<"S", "h", "i", "v", "'", "s", " ", "i", "n", " ", "m", "i", "d">>>>,
       \* (r"Shibu's here\b", 'Shiv was here')
       <<Cat(<<Lit(<<"S", "h", "i", "b", "u", "'", "s", " ", "h", "e", "r", "e">>), Wb>>), <<"S", "h", "i", "v", " ", "w", "a", "s", " ", "h", "e", "r", "e">>>>,
       \* (r'Shave is dead\b', 'Shiv is dead')
       <<Cat(<<Lit(<<"S", "h", "a", "v", "e", " ", "i", "s", " ", "d", "e", "a", "d">>), Wb>>), <<"S", "h", "i", "v", " ", "i", "s", " ", "d", "e", "a", "d">>>>,
       \* (r"Let's take out SHIB\b", "Let's take out Shiv")
       <<Cat(<<Lit(<<"L", "e", "t", "'", "s", " ", "t", "a", "k", "e", " ", "o", "u", "t", " ", "S", "H", "I", "B">>), Wb>>), <<"L", "e", "t", "'", "s", " ", "t", "a", "k", "e", " ", "o", "u", "t", " ", "S", "h", "i", "v">>>>,
       \* (r"She's on top of me\b", "Shiv's on top of mid")
       <<Cat(<<Lit(<<"S", "h", "e", "'", "s", " ", "o", "n", " ", "t", "o", "p", " ", "o", "f", " ", "m", "e">>), Wb>>), <<"S", "h", "i", "v", "'", "s", " ", "o", "n", " ", "t", "o", "p", " ", "o", "f", " ", "m", "i", "d">>>>,
       \* (r"Sheev's missing\b", "Shiv's missing")
       <<Cat(<<Lit(<<"S", "h", "e", "e", "v", "'", "s", " ", "m", "i", "s", "s", "i", "n", "g">>), Wb>>), <<"S", "h", "i", "v", "'", "s", " ", "m", "i", "s", "s", "i", "n", "g">>>>,
       \* (r'Ships on the bridge\b', "Shiv's on the bridge")
       <<Cat(<<Lit(<<"S", "h", "i", "p", "s", " ", "o", "n", " ", "t", "h", "e", " ", "b", "r", "i", "d", "g", "e">>), Wb>>), <<"S", "h", "i", "v", "'", "s", " ", "o", "n", " ", "t", "h", "e", " ", "b", "r", "i", "d", "g", "e">>>>,
       \* (r'Shifts on the roof\b', "Shiv's on the roof")
       <<Cat(<<Lit(<<"S", "h", "i", "f", "t", "s", " ", "o", "n", " ", "t", "h", "e", " ", "r", "o", "o", "f">>), Wb>>), <<"S", "h", "i", "v", "'", "s", " ", "o", "n", " ", "t", "h", "e", " ", "r", "o", "o", "f">>>>,
       \* (r'Shiff is almost back\b', 'Shiv is almost back')
       <<Cat(<<Lit(<<"S", "h", "i", "f", "f", " ", "i", "s", " ", "a", "l", "m", "o", "s", "t", " ", "b", "a", "c", "k">>), Wb>>), <<"S", "h", "i", "v", " ", "i", "s", " ", "a", "l", "m", "o", "s", "t", " ", "b", "a", "c", "k">>>>,
       \* (r'Careful, Sheath\b', 'Careful, Shiv')
       <<Cat(<<Lit(<<"C", "a", "r", "e", "f", "u", "l", ",", " ", "S", "h", "e", "a", "t", "h">>), Wb>>), <<"C", "a", "r", "e", "f", "u", "l", ",", " ", "S", "h", "i", "v">>>>,
       \* (r'Careful, shibs\b', 'Careful, Shiv')
       <<Cat(<<Lit(<<"C", "a", "r", "e", "f", "u", "l", ",", " ", "s", "h", "i", "b", "s">>), Wb>>), <<"C", "a", "r", "e", "f", "u", "l", ",", " ", "S", "h", "i", "v">>>>,
       \* (r"Jim's under the garage\b", "Shiv's under the garage")
       <<Cat(<<Lit(<<"J", "i", "m", "'", "s", " ", "u", "n", "d", "e", "r", " ", "t", "h", "e", " ", "g", "a", "r", "a", "g", "e">>), Wb>>), <<"S", "h", "i", "v", "'", "s", " ", "u", "n", "d", "e", "r", " ", "t", "h", "e", " ", "g", "a", "r", "a", "g", "e">>>>,
       \* (r'Sibs on the roof\b', "Shiv's on the roof")
       <<Cat(<<Lit(<<"S", "i", "b", "s", " ", "o", "n", " ", "t", "h", "e", " ", "r", "o", "o", "f">>), Wb>>), <<"S", "h", "i", "v", "'", "s", " ", "o", "n", " ", "t", "h", "e", " ", "r", "o", "o", "f">>>>,
       \* (r'Ships on top of the garage\b', "Shiv's on top of the garage")
       <<Cat(<<Lit(<<"S", "h", "i", "p", "s", " ", "o", "n", " ", "t", "o", "p", " ", "o", "f", " ", "t", "h", "e", " ", "g", "a", "r", "a", "g", "e">>), Wb>>), <<"S", "h", "i", "v", "'", "s", " ", "o", "n", " ", "t", "o", "p", " ", "o", "f", " ", "t", "h", "e", " ", "g", "a", "r", "a", "g", "e">>>>,
       \* (r"Shibi's out there\b", "Shiv's out there")
       <<Cat(<<Lit(<<"S", "h", "i", "b", "i", "'", "s", " ", "o", "u", "t", " ", "t", "h", "e", "r", "e">>), Wb>>), <<"S", "h", "i", "v", "'", "s", " ", "o", "u", "t", " ", "t", "h", "e", "r", "e">>>>,
       \* (r'Sibs on the bridge\b', "Shiv's on the bridge")
       <<Cat(<<Lit(<<"S", "i", "b", "s", " ", "o", "n", " ", "t", "h", "e", " ", "b", "r", "i", "d", "g", "e">>), Wb>>), <<"S", "h", "i", "v", "'", "s", " ", "o", "n", " ", "t", "h", "e", " ", "b", "r", "i", "d", "g", "e">>>>,
       \* (r'Chef, I can heal you\b', 'Shiv, I can heal you')
       <<Cat(<<Lit(<<"C", "h", "e", "f", ",", " ", "I", " ", "c", "a", "n", " ", "h", "e", "a", "l", " ", "y", "o", "u">>), Wb>>), <<"S", "h", "i", "v", ",", " ", "I", " ", "c", "a", "n", " ", "h", "e", "a", "l", " ", "y", "o", "u">>>>,
       \* (r'D-Bop is almost back\b', 'Bebop is almost back')
       <<Cat(<<Lit(<<"D", "-", "B", "o", "p", " ", "i", "s", " ", "a", "l", "m", "o", "s", "t", " ", "b", "a", "c", "k">>), Wb>>), <<"B", "e", "b", "o", "p", " ", "i", "s", " ", "a", "l", "m", "o", "s", "t", " ", "b", "a", "c", "k">>>>,
       \* (r'Be rough, submit\b', "Bebop's in mid")
       <<Cat(<<Lit(<<"B", "e", " ", "r", "o", "u", "g", "h", ",", " ", "s", "u", "b", "m", "i", "t">>), Wb>>), <<"B", "e", "b", "o", "p", "'", "s", " ", "i", "n", " ", "m", "i", "d">>>>,
       \* (r"Let's take out B-Bomb\b", "Let's take out Bebop")
       <<Cat(<<Lit(<<"L", "e", "t", "'", "s", " ", "t", "a", "k", "e", " ", "o", "u", "t", " ", "B", "-", "B", "o", "m", "b">>), Wb>>), <<"L", "e", "t", "'", "s", " ", "t", "a", "k", "e", " ", "o", "u", "t", " ", "B", "e", "b", "o", "p">>>>,
       \* (r'Beats on the roof\b', "Bebop's on the roof")
       <<Cat(<<Lit(<<"B", "e", "a", "t", "s", " ", "o", "n", " ", "t", "h", "e", " ", "r", "o", "o", "f">>), Wb>>), <<"B", "e", "b", "o", "p", "'", "s", " ", "o", "n", " ", "t", "h", "e", " ", "r", "o", "o", "f">>>>,
       \* (r'Check out what people bought\b', 'Check out what Bebop bought')
       <<Cat(<<Lit(<<"C", "h", "e", "c", "k", " ", "o", "u", "t", " ", "w", "h", "a", "t", " ", "p", "e", "o", "p", "l", "e", " ", "b", "o", "u", "g", "h", "t">>), Wb>>), <<"C", "h", "e", "c", "k", " ", "o", "u", "t", " ", "w", "h", "a", "t", " ", "B", "e", "b", "o", "p", " ", "b", "o", "u", "g", "h", "t">>>>,
       \* (r'The above is missing\b', 'Bebop is missing')
       <<Cat(<<Lit(<<"T", "h", "e", " ", "a", "b", "o", "v", "e", " ", "i", "s", " ", "m", "i", "s", "s", "i", "n", "g">>), Wb>>), <<"B", "e", "b", "o", "p", " ", "i", "s", " ", "m", "i", "s", "s", "i", "n", "g">>>>,
       \* (r'Careful, D-Bob\b', 'Careful, Bebop')
       <<Cat(<<Lit(<<"C", "a", "r", "e", "f", "u", "l", ",", " ", "D", "-", "B", "o", "b">>), Wb>>), <<"C", "a", "r", "e", "f", "u", "l", ",", " ", "B", "e", "b", "o", "p">>>>,
       \* (r'Peeps on top of me\b', "Bebop's on top of mid")
       <<Cat(<<Lit(<<"P", "e", "e", "p", "s", " ", "o", "n", " ", "t", "o", "p", " ", "o", "f", " ", "m", "e">>), Wb>>), <<"B", "e", "b", "o", "p", "'", "s", " ", "o", "n", " ", "t", "o", "p", " ", "o", "f", " ", "m", "i", "d">>>>,
       \* (r'I saw a beeba\b', 'I saw Bebop')
       <<Cat(<<Lit(<<"I", " ", "s", "a", "w", " ", "a", " ", "b", "e", "e", "b", "a">>), Wb>>), <<"I", " ", "s", "a", "w", " ", "B", "e", "b", "o", "p">>>>,
       \* (r'I saw Beavoth\b', 'I saw Bebop')
       <<Cat(<<Lit(<<"I", " ", "s", "a", "w", " ", "B", "e", "a", "v", "o", "t", "h">>), Wb>>), <<"I", " ", "s", "a", "w", " ", "B", "e", "b", "o", "p">>>>,
       \* (r'Peevos and meat\b', "Bebop's in mid")
       <<Cat(<<Lit(<<"P", "e", "e", "v", "o", "s", " ", "a", "n", "d", " ", "m", "e", "a", "t">>), Wb>>), <<"B", "e", "b", "o", "p", "'", "s", " ", "i", "n", " ", "m", "i", "d">>>>,
       \* (r'I saw a B-Bomb\b', 'I saw Bebop')
       <<Cat(<<Lit(<<"I", " ", "s", "a", "w", " ", "a", " ", "B", "-", "B", "o", "m", "b">>), Wb>>), <<"I", " ", "s", "a", "w", " ", "B", "e", "b", "o", "p">>>>,
       \* (r"Pbop's on the bridge\b", "Bebop's on the bridge")
       <<Cat(<<Lit(<<"P", "b", "o", "p", "'", "s", " ", "o", "n", " ", "t", "h", "e", " ", "b", "r", "i", "d", "g", "e">>), Wb>>), <<"B", "e", "b", "o", "p", "'", "s", " ", "o", "n", " ", "t", "h", "e", " ", "b", "r", "i", "d", "g", "e">>>>,
       \* (r'I see peanut\b', 'I see Bebop')
       <<Cat(<<Lit(<<"I", " ", "s", "e", "e", " ", "p", "e", "a", "n", "u", "t">>), Wb>>), <<"I", " ", "s", "e", "e", " ", "B", "e", "b", "o", "p">>>>,
       \* (r'Careful beam up\b', 'Careful, Bebop')
       <<Cat(<<Lit(<<"C", "a", "r", "e", "f", "u", "l", " ", "b", "e", "a", "m", " ", "u", "p">>), Wb>>), <<"C", "a", "r", "e", "f", "u", "l", ",", " ", "B", "e", "b", "o", "p">>>>,
       \* (r'V-Bucks on top of the garage\b', "Bebop's on top of the garage")
       <<Cat(<<Lit(<<"V", "-", "B", "u", "c", "k", "s", " ", "o", "n", " ", "t", "o", "p", " ", "o", "f", " ", "t", "h", "e", " ", "g", "a", "r", "a", "g", "e">>), Wb>>), <<"B", "e", "b", "o", "p", "'", "s", " ", "o", "n", " ", "t", "o", "p", " ", "o", "f", " ", "t", "h", "e", " ", "g", "a", "r", "a", "g", "e">>>>,
       \* (r'V-Bombs are under the garage\b', "Bebop's under the garage")
       <<Cat(<<Lit(<<"V", "-", "B", "o", "m", "b", "s", " ", "a", "r", "e", " ", "u", "n", "d", "e", "r", " ", "t", "h", "e", " ", "g", "a", "r", "a", "g", "e">>), Wb>>), <<"B", "e", "b", "o", "p", "'", "s", " ", "u", "n", "d", "e", "r", " ", "t", "h", "e", " ", "g", "a", "r", "a", "g", "e">>>>,
       \* (r"The Abattoir's dead\b", "Yamato's dead")
       <<Cat(<<Lit(<<"T", "h", "e", " ", "A", "b", "a", "t", "t", "o", "i", "r", "'", "s", " ", "d", "e", "a", "d">>), Wb>>), <<"Y", "a", "m", "a", "t", "o", "'", "s", " ", "d", "e", "a", "d">>>>,
       \* (r"Yamcha's on the bridge\b", "Yamato's on the bridge")
       <<Cat(<<Lit(<<"Y", "a", "m", "c", "h", "a", "'", "s", " ", "o", "n", " ", "t", "h", "e", " ", "b", "r", "i", "d", "g", "e">>), Wb>>), <<"Y", "a", "m", "a", "t", "o", "'", "s", " ", "o", "n", " ", "t", "h", "e", " ", "b", "r", "i", "d", "g", "e">>>>,
       \* (r'Jabbatos in mid\b', "Yamato's in mid")
       <<Cat(<<Lit(<<"J", "a", "b", "b", "a", "t", "o", "s", " ", "i", "n", " ", "m", "i", "d">>), Wb>>), <<"Y", "a", "m", "a", "t", "o", "'", "s", " ", "i", "n", " ", "m", "i", "d">>>>,
       \* (r'Carefully, Hamato\b', 'Careful, Yamato')
       <<Cat(<<Lit(<<"C", "a", "r", "e", "f", "u", "l", "l", "y", ",", " ", "H", "a", "m", "a", "t", "o">>), Wb>>), <<"C", "a", "r", "e", "f", "u", "l", ",", " ", "Y", "a", "m", "a", "t", "o">>>>,
       \* (r'I saw yamachu\b', 'I saw Yamato')
       <<Cat(<<Lit(<<"I", " ", "s", "a", "w", " ", "y", "a", "m", "a", "c", "h", "u">>), Wb>>), <<"I", " ", "s", "a", "w", " ", "Y", "a", "m", "a", "t", "o">>>>,
       \* (r"The Avatar's on top of the carriage\b", "Yamato's on top of the garage")
       <<Cat(<<Lit(<<"T", "h", "e", " ", "A", "v", "a", "t", "a", "r", "'", "s", " ", "o", "n", " ", "t", "o", "p", " ", "o", "f", " ", "t", "h", "e", " ", "c", "a", "r", "r", "i", "a", "g", "e">>), Wb>>), <<"Y", "a", "m", "a", "t", "o", "'", "s", " ", "o", "n", " ", "t", "o", "p", " ", "o", "f", " ", "t", "h", "e", " ", "g", "a", "r", "a", "g", "e">>>>,
       \* (r'I see Yomato\b', 'I see Yamato')
       <<Cat(<<Lit(<<"I", " ", "s", "e", "e", " ", "Y", "o", "m", "a", "t", "o">>), Wb>>), <<"I", " ", "s", "e", "e", " ", "Y", "a", "m", "a", "t", "o">>>>,
       \* (r'The avatars are to breach\b', "Yamato's on the bridge")
       <<Cat(<<Lit(<<"T", "h", "e", " ", "a", "v", "a", "t", "a", "r", "s", " ", "a", "r", "e", " ", "t", "o", " ", "b", "r", "e", "a", "c", "h">>), Wb>>), <<"Y", "a", "m", "a", "t", "o", "'", "s", " ", "o", "n", " ", "t", "h", "e", " ", "b", "r", "i", "d", "g", "e">>>>,
       \* (r"I see y'all, Mato\b", 'I see Yamato')
       <<Cat(<<Lit(<<"I", " ", "s", "e", "e", " ", "y", "'", "a", "l", "l", ",", " ", "M", "a", "t", "o">>), Wb>>), <<"I", " ", "s", "e", "e", " ", "Y", "a", "m", "a", "t", "o">>>>,
       \* (r'Check out what Yom Tobboth\b', 'Check out what Yamato bought')
       <<Cat(<<Lit(<<"C", "h", "e", "c", "k", " ", "o", "u", "t", " ", "w", "h", "a", "t", " ", "Y", "o", "m", " ", "T", "o", "b", "b", "o", "t", "h">>), Wb>>), <<"C", "h", "e", "c", "k", " ", "o", "u", "t", " ", "w", "h", "a", "t", " ", "Y", "a", "m", "a", "t", "o", " ", "b", "o", "u", "g", "h", "t">>>>,
       \* (r'Germitals on top of med\b', "Yamato's on top of mid")
       <<Cat(<<Lit(<<"G", "e", "r", "m", "i", "t", "a", "l", "s", " ", "o", "n", " ", "t", "o", "p", " ", "o", "f", " ", "m", "e", "d">>), Wb>>), <<"Y", "a", "m", "a", "t", "o", "'", "s", " ", "o", "n", " ", "t", "o", "p", " ", "o", "f", " ", "m", "i", "d">>>>,
       \* (r'Galmato is here\b', 'Yamato was here')
       <<Cat(<<Lit(<<"G", "a", "l", "m", "a", "t", "o", " ", "i", "s", " ", "h", "e", "r", "e">>), Wb>>), <<"Y", "a", "m", "a", "t", "o", " ", "w", "a", "s", " ", "h", "e", "r", "e">>>>,
       \* (r"Gamato's in mid\b", "Yamato's in mid")
       <<Cat(<<Lit(<<"G", "a", "m", "a", "t", "o", "'", "s", " ", "i", "n", " ", "m", "i", "d">>), Wb>>), <<"Y", "a", "m", "a", "t", "o", "'", "s", " ", "i", "n", " ", "m", "i", "d">>>>,
       \* (r'Careful yamacho\b', 'Careful, Yamato')
       <<Cat(<<Lit(<<"C", "a", "r", "e", "f", "u", "l", " ", "y", "a", "m", "a", "c", "h", "o">>), Wb>>), <<"C", "a", "r", "e", "f", "u", "l", ",", " ", "Y", "a", "m", "a", "t", "o">>>>,
       \* (r'Trepper is dead\b', 'Trapper is dead')
       <<Cat(<<Lit(<<"T", "r", "e", "p", "p", "e", "r", " ", "i", "s", " ", "d", "e", "a", "d">>), Wb>>), <<"T", "r", "a", "p", "p", "e", "r", " ", "i", "s", " ", "d", "e", "a", "d">>>>,
       \* (r'Trap us under the garage\b', "Trapper's under the garage")
       <<Cat(<<Lit(<<"T", "r", "a", "p", " ", "u", "s", " ", "u", "n", "d", "e", "r", " ", "t", "h", "e", " ", "g", "a", "r", "a", "g", "e">>), Wb>>), <<"T", "r", "a", "p", "p", "e", "r", "'", "s", " ", "u", "n", "d", "e", "r", " ", "t", "h", "e", " ", "g", "a", "r", "a", "g", "e">>>>,
       \* (r"Trevor's almost back\b", "Trapper's almost back")
       <<Cat(<<Lit(<<"T", "r", "e", "v", "o", "r", "'", "s", " ", "a", "l", "m", "o", "s", "t", " ", "b", "a", "c", "k">>), Wb>>), <<"T", "r", "a", "p", "p", "e", "r", "'", "s", " ", "a", "l", "m", "o", "s", "t", " ", "b", "a", "c", "k">>>>,
       \* (r'Trap us on the roof\b', "Trapper's on the roof")
       <<Cat(<<Lit(<<"T", "r", "a", "p", " ", "u", "s", " ", "o", "n", " ", "t", "h", "e", " ", "r", "o", "o", "f">>), Wb>>), <<"T", "r", "a", "p", "p", "e", "r", "'", "s", " ", "o", "n", " ", "t", "h", "e", " ", "r", "o", "o", "f">>>>,
       \* (r'Check out what rapper bought\b', 'Check out what Trapper bought')
       <<Cat(<<Lit(<<"C", "h", "e", "c", "k", " ", "o", "u", "t", " ", "w", "h", "a", "t", " ", "r", "a", "p", "p", "e", "r", " ", "b", "o", "u", "g", "h", "t">>), Wb>>), <<"C", "h", "e", "c", "k", " ", "o", "u", "t", " ", "w", "h", "a", "t", " ", "T", "r", "a", "p", "p", "e", "r", " ", "b", "o", "u", "g", "h", "t">>>>,
       \* (r'Captain on top of the garage\b', "Trapper's on top of the garage")
       <<Cat(<<Lit(<<"C", "a", "p", "t", "a", "i", "n", " ", "o", "n", " ", "t", "o", "p", " ", "o", "f", " ", "t", "h", "e", " ", "g", "a", "r", "a", "g", "e">>), Wb>>), <<"T", "r", "a", "p", "p", "e", "r", "'", "s", " ", "o", "n", " ", "t", "o", "p", " ", "o", "f", " ", "t", "h", "e", " ", "g", "a", "r", "a", "g", "e">>>>,
       \* (r'Trampo is here\b', 'Trapper was here')
       <<Cat(<<Lit(<<"T", "r", "a", "m", "p", "o", " ", "i", "s", " ", "h", "e", "r", "e">>), Wb>>), <<"T", "r", "a", "p", "p", "e", "r", " ", "w", "a", "s", " ", "h", "e", "r", "e">>>>,
       \* (r'Ignore drapper\b', 'Ignore Trapper')
       <<Cat(<<Lit(<<"I", "g", "n", "o", "r", "e", " ", "d", "r", "a", "p", "p", "e", "r">>), Wb>>), <<"I", "g", "n", "o", "r", "e", " ", "T", "r", "a", "p", "p", "e", "r">>>>,
       \* (r'Trap us on the bridge\b', "Trapper's on the bridge")
       <<Cat(<<Lit(<<"T", "r", "a", "p", " ", "u", "s", " ", "o", "n", " ", "t", "h", "e", " ", "b", "r", "i", "d", "g", "e">>), Wb>>), <<"T", "r", "a", "p", "p", "e", "r", "'", "s", " ", "o", "n", " ", "t", "h", "e", " ", "b", "r", "i", "d", "g", "e">>>>,
       \* (r'Stuntropper\b', 'Stun Trapper')
       <<Cat(<<Lit(<<"S", "t", "u", "n", "t", "r", "o", "p", "p", "e", "r">>), Wb>>), <<"S", "t", "u", "n", " ", "T", "r", "a", "p", "p", "e", "r">>>>
    >>

\* "for pattern, replacement in PHRASE_CORRECTIONS: text = re.sub(pattern,
\*  replacement, text)": rules lo..hi applied in order, each to the output of
\* the one before.  The range is halved, and the first half's output computed
\* (Len(half) >= 0 is always true) before the second half starts, only to keep
\* the evaluation shallow.
\* apply_phrases with the rules taken from the last to the first.
RECURSIVE apply_phrases_reversed(_, _, _)
apply_phrases_reversed(s, lo, hi) ==
    IF lo > hi THEN s
    ELSE IF lo = hi
    THEN re_sub(PHRASE_CORRECTIONS[lo][1], PHRASE_CORRECTIONS[lo][2], s, FALSE)
    ELSE LET mid == (lo + hi) \div 2
             half == apply_phrases_reversed(s, mid + 1, hi)
         IN  IF Len(half) >= 0 THEN apply_phrases_reversed(half, lo, mid) ELSE half

RECURSIVE apply_phrases(_, _, _)
apply_phrases(s, lo, hi) ==
    IF lo > hi THEN s
    ELSE IF lo = hi
    THEN re_sub(PHRASE_CORRECTIONS[lo][1], PHRASE_CORRECTIONS[lo][2], s, FALSE)
    ELSE LET mid == (lo + hi) \div 2
             half == apply_phrases(s, lo, mid)
         IN  IF Len(half) >= 0 THEN apply_phrases(half, mid + 1, hi) ELSE half

\* apply_names matching the misheard names in their own case only.
RECURSIVE apply_names_case_sensitive(_, _, _)
apply_names_case_sensitive(s, lo, hi) ==
    IF lo > hi THEN s
    ELSE IF lo = hi
    THEN re_sub(Cat(<<Wb, Lit(CHARACTER_NAME_CORRECTIONS[lo][1]), Wb>>),
                CHARACTER_NAME_CORRECTIONS[lo][2], s, FALSE)
    ELSE LET mid == (lo + hi) \div 2
             half == apply_names_case_sensitive(s, lo, mid)
         IN  IF Len(half) >= 0 THEN apply_names_case_sensitive(half, mid + 1, hi) ELSE half

\* apply_names matching the misheard names inside longer words too.
RECURSIVE apply_names_anywhere(_, _, _)
apply_names_anywhere(s, lo, hi) ==
    IF lo > hi THEN s
    ELSE IF lo = hi
    THEN re_sub(Lit(CHARACTER_NAME_CORRECTIONS[lo][1]),
                CHARACTER_NAME_CORRECTIONS[lo][2], s, TRUE)
    ELSE LET mid == (lo + hi) \div 2
             half == apply_names_anywhere(s, lo, mid)
         IN  IF Len(half) >= 0 THEN apply_names_anywhere(half, mid + 1, hi) ELSE half

\* "for wrong, correct in CHARACTER_NAME_CORRECTIONS.items(): text = re.sub(
\*  r'\b' + re.escape(wrong) + r'\b', correct, text, flags=re.IGNORECASE)"
RECURSIVE apply_names(_, _, _)
apply_names(s, lo, hi) ==
    IF lo > hi THEN s
    ELSE IF lo = hi
    THEN re_sub(Cat(<<Wb, Lit(CHARACTER_NAME_CORRECTIONS[lo][1]), Wb>>),
                CHARACTER_NAME_CORRECTIONS[lo][2], s, TRUE)
    ELSE LET mid == (lo + hi) \div 2
             half == apply_names(s, lo, mid)
         IN  IF Len(half) >= 0 THEN apply_names(half, mid + 1, hi) ELSE half

\* fix_text leaving the files of the non-verbal categories alone.
fix_text_by_category(s, filename) ==
    IF should_process_file(filename) THEN s
    ELSE apply_names(apply_phrases(s, 1, Len(PHRASE_CORRECTIONS)),
                     1, Len(CHARACTER_NAME_CORRECTIONS))

\* fix_text(text, filename)
fix_text(s, filename) ==
    apply_names(apply_phrases(s, 1, Len(PHRASE_CORRECTIONS)), 1, Len(CHARACTER_NAME_CORRECTIONS))

---------------------------------------------------------------------------
(* The two scripts as a state machine *)

\* What one turn of the loop of fixHallucinatedScreams.process_json_file adds
\* in front of what the later turns (rest) do.
screams_turn(call, change, rest) ==
    [rest EXCEPT !.changes = change \o @, !.seen = <<call>> \o @]

\* The loop of fixHallucinatedScreams.process_json_file over data['segments'],
\* from segment k on: the segments as they are left, the changes appended, the
\* calls of is_hallucinated made, and whether one of them raised.
RECURSIVE clear_segments(_, _, _)
RECURSIVE classify_segment(_, _, _, _)
RECURSIVE clear_segment(_, _, _, _)
clear_segments(filepath, segments, k) ==
    IF k > Len(segments)
    THEN [segments |-> segments, changes |-> << >>, seen |-> << >>, raised |-> FALSE]
    ELSE IF "text" \notin DOMAIN segments[k] THEN clear_segments(filepath, segments, k + 1)
    ELSE classify_segment(filepath, segments, k, segments[k].text)

\* classify_segment with the corrector applied to the text first.
classify_segment_corrected(filepath, segments, k, original) ==
    clear_segment(filepath, segments, k,
                  [file |-> filepath, segment |-> k, arg |-> fix_text(original, filepath),
                   verdict |-> is_hallucinated(fix_text(original, filepath))])

\* "original = segment['text']" and the call "is_hallucinated(original)".
classify_segment(filepath, segments, k, original) ==
    clear_segment(filepath, segments, k,
                  [file |-> filepath, segment |-> k, arg |-> original,
                   verdict |-> is_hallucinated(original)])

\* clear_segment removing a hallucinated segment instead of emptying its text.
clear_segment_removing(filepath, segments, k, call) ==
    IF call.verdict = "re.error"
    THEN [segments |-> segments, changes |-> << >>, seen |-> <<call>>, raised |-> TRUE]
    ELSE IF call.verdict = "True"
    THEN screams_turn(
            call,
            <<[file |-> filepath, original |-> segments[k].text, fixed |-> << >>]>>,
            clear_segments(filepath,
                           SubSeq(segments, 1, k - 1) \o SubSeq(segments, k + 1, Len(segments)),
                           k))
    ELSE screams_turn(call, << >>, clear_segments(filepath, segments, k + 1))

\* clear_segment entering the change and leaving the text of the segment.
clear_segment_keeping_text(filepath, segments, k, call) ==
    IF call.verdict = "re.error"
    THEN [segments |-> segments, changes |-> << >>, seen |-> <<call>>, raised |-> TRUE]
    ELSE screams_turn(
            call,
            IF call.verdict = "True"
            THEN <<[file |-> filepath, original |-> segments[k].text, fixed |-> << >>]>>
            ELSE << >>,
            clear_segments(filepath, segments, k + 1))

\* The body of the loop for segment k after that call.
clear_segment(filepath, segments, k, call) ==
    IF call.verdict = "re.error"
    THEN [segments |-> segments, changes |-> << >>, seen |-> <<call>>, raised |-> TRUE]
    ELSE screams_turn(
            call,
            IF call.verdict = "True"
            THEN <<[file |-> filepath, original |-> segments[k].text, fixed |-> << >>]>>
            ELSE << >>,
            clear_segments(filepath,
                           IF call.verdict = "True" THEN [segments EXCEPT ![k].text = << >>]
                           ELSE segments,
                           k + 1))

\* The end of fixHallucinatedScreams.process_json_file: the file is written
\* when a segment was cleared and the run is not a dry run.
screams_finish(r, content, dry) ==
    [changes |-> r.changes, seen |-> r.seen, raised |-> r.raised,
     written |-> ~r.raised /\ r.changes # << >> /\ ~dry,
     content |-> [content EXCEPT !.data.segments = r.segments]]

\* What process_json_file (of either script) returns when it does nothing.
nothing(content) ==
    [changes |-> << >>, seen |-> << >>, raised |-> FALSE, written |-> FALSE,
     content |-> content]

\* fixHallucinatedScreams.process_json_file(filepath, dry_run) on a file with
\* the given content: the changes returned, the calls of is_hallucinated, whether
\* an exception left the function, and the content written, if any.
screams_process_json_file(filepath, content, dry) ==
    IF ~should_process_file(filepath) THEN nothing(content)
    ELSE IF content.kind # "json" THEN nothing(content)
    ELSE IF "segments" \notin DOMAIN content.data THEN nothing(content)
    ELSE screams_finish(clear_segments(filepath, content.data.segments, 1), content, dry)

\* fix_turn entering the change after those of the later turns.
fix_turn_appending(change, rest) ==
    [rest EXCEPT !.changes = @ \o <<change>>]

\* What one changing turn of the loop of autoFixWhisperErrors.process_json_file
\* adds in front of what the later turns (rest) do.
fix_turn(change, rest) ==
    [rest EXCEPT !.changes = <<change>> \o @]

\* Values json.load returns in the place of a dict: a number, None, and the
\* empty list.
JSON_NUMBER == [json |-> "int"]
JSON_NULL == [json |-> "NoneType"]
JSON_ARRAY == [json |-> "list"]

\* The values "'segments' in data" and "'text' in segment" raise TypeError
\* for: they are no containers.  In the empty list the key is merely not found.
NOT_CONTAINERS == {JSON_NUMBER, JSON_NULL}

\* Values json.load returns in the place of a string, each written as the
\* one-element sequence of the name of its type, which is no character.  The
\* first re.sub of fix_text raises TypeError for them.
NOT_STRINGS == {<<"int">>, <<"NoneType">>, <<"list">>}

\* The loop of autoFixWhisperErrors.process_json_file over data['segments'];
\* a TypeError raised in a turn leaves the loop and the function.
RECURSIVE fix_segments(_, _, _)
RECURSIVE fix_segment(_, _, _, _)
fix_segments(filepath, segments, k) ==
    IF k > Len(segments)
    THEN [segments |-> segments, changes |-> << >>, seen |-> << >>, raised |-> FALSE]
    ELSE IF segments[k] \in NOT_CONTAINERS
    THEN [segments |-> segments, changes |-> << >>, seen |-> << >>, raised |-> TRUE]
    ELSE IF segments[k] = JSON_ARRAY THEN fix_segments(filepath, segments, k + 1)
    ELSE IF "text" \notin DOMAIN segments[k] THEN fix_segments(filepath, segments, k + 1)
    ELSE IF segments[k].text \in NOT_STRINGS
    THEN [segments |-> segments, changes |-> << >>, seen |-> << >>, raised |-> TRUE]
    ELSE fix_segment(filepath, segments, k, fix_text(segments[k].text, filepath))

\* The body of that loop for segment k, fix_text having answered fixed.
fix_segment(filepath, segments, k, fixed) ==
    IF segments[k].text # fixed
    THEN fix_turn(
            [file |-> filepath, original |-> segments[k].text, fixed |-> fixed],
            fix_segments(filepath, [segments EXCEPT ![k].text = fixed], k + 1))
    ELSE fix_segments(filepath, segments, k + 1)

\* What autoFixWhisperErrors.process_json_file leaves when an exception other
\* than JSONDecodeError and UnicodeDecodeError leaves it: nothing is returned
\* and nothing is written.
raises(content) ==
    [changes |-> << >>, seen |-> << >>, raised |-> TRUE, written |-> FALSE,
     content |-> content]

\* autoFix_finish writing the file in a dry run too.
autoFix_finish_writing_always(r, content, dry) ==
    IF r.raised THEN raises(content)
    ELSE [changes |-> r.changes, seen |-> << >>, raised |-> FALSE,
          written |-> r.changes # << >>,
          content |-> [content EXCEPT !.data.segments = r.segments]]

\* The end of autoFixWhisperErrors.process_json_file.
autoFix_finish(r, content, dry) ==
    IF r.raised THEN raises(content)
    ELSE [changes |-> r.changes, seen |-> << >>, raised |-> FALSE,
          written |-> r.changes # << >> /\ ~dry,
          content |-> [content EXCEPT !.data.segments = r.segments]]

\* autoFixWhisperErrors.process_json_file(filepath, dry_run)
autoFix_process_json_file(filepath, content, dry) ==
    IF content.kind # "json" THEN nothing(content)
    ELSE IF content.data \in NOT_CONTAINERS THEN raises(content)
    ELSE IF content.data = JSON_ARRAY THEN nothing(content)
    ELSE IF "segments" \notin DOMAIN content.data THEN nothing(content)
    ELSE autoFix_finish(fix_segments(filepath, content.data.segments, 1), content, dry)

\* main() of either script starts process_directory.  The model follows an
\* invocation and the one after it; a dry run leaves the disk as it was, so
\* only an invocation with --apply is followed by a second one.
MayStart ==
    \/ pc = "idle"
    \/ /\ pc \in {"done", "crashed"}
       /\ Len(history) = 1
       /\ ~history[1][2]

\* autoFixWhisperErrors.process_directory: every *.json file of the directory.
StartFix(dry) ==
    /\ MayStart
    /\ history' = Append(history, <<"autoFixWhisperErrors", dry>>)
    /\ pc' = "running"
    /\ todo' = DOMAIN disk
    /\ all_changes' = << >>
    /\ classified' = << >>
    /\ writes' = {}
    /\ UNCHANGED <<disk, orig, text, result>>

\* fixHallucinatedScreams.process_directory: the files should_process_file keeps.
StartScreams(dry) ==
    /\ MayStart
    /\ history' = Append(history, <<"fixHallucinatedScreams", dry>>)
    /\ pc' = "running"
    /\ todo' = { f \in DOMAIN disk : should_process_file(f) }
    /\ all_changes' = << >>
    /\ classified' = << >>
    /\ writes' = {}
    /\ UNCHANGED <<disk, orig, text, result>>

script == IF history = << >> THEN "none" ELSE history[Len(history)][1]
dry_run == history # << >> /\ history[Len(history)][2]

\* One turn of "for filepath in json_files" of autoFixWhisperErrors; an
\* exception that leaves process_json_file is caught nowhere and ends the process.
FixFile(f) ==
    /\ pc = "running"
    /\ script = "autoFixWhisperErrors"
    /\ f \in todo
    /\ \E r \in {autoFix_process_json_file(f, disk[f], dry_run)} :
           /\ all_changes' = IF r.raised THEN all_changes ELSE all_changes \o r.changes
           /\ disk' = IF r.written THEN [disk EXCEPT ![f] = r.content] ELSE disk
           /\ writes' = IF r.written THEN writes \cup {f} ELSE writes
           /\ pc' = IF r.raised THEN "crashed" ELSE pc
    /\ todo' = todo \ {f}
    /\ UNCHANGED <<orig, history, classified, text, result>>

\* One turn of "for filepath in target_files" of fixHallucinatedScreams; an
\* exception raised by is_hallucinated is caught nowhere and ends the process.
ScreamsFile(f) ==
    /\ pc = "running"
    /\ script = "fixHallucinatedScreams"
    /\ f \in todo
    /\ \E r \in {screams_process_json_file(f, disk[f], dry_run)} :
           /\ classified' = classified \o r.seen
           /\ all_changes' = IF r.raised THEN all_changes ELSE all_changes \o r.changes
           /\ disk' = IF r.written THEN [disk EXCEPT ![f] = r.content] ELSE disk
           /\ writes' = IF r.written THEN writes \cup {f} ELSE writes
           /\ pc' = IF r.raised THEN "crashed" ELSE pc
    /\ todo' = todo \ {f}
    /\ UNCHANGED <<orig, history, text, result>>

\* "return all_changes"
Return ==
    /\ pc = "running"
    /\ todo = {}
    /\ pc' = "done"
    /\ UNCHANGED <<disk, orig, history, todo, all_changes, classified, writes, text, result>>

---------------------------------------------------------------------------
(* The directories the model starts from *)

\* "voice_bebop_pain_big_03.json", a file of a non-verbal category
PainFile ==
    <<"v", "o", "i", "c", "e", "_", "b", "e", "b", "o", "p", "_", "p", "a", "i", "n", "_",
      "b", "i", "g", "_", "0", "3", ".", "j", "s", "o", "n">>

\* "voice_bebop_kill_01.json", a file of no non-verbal category
KillFile ==
    <<"v", "o", "i", "c", "e", "_", "b", "e", "b", "o", "p", "_", "k", "i", "l", "l", "_",
      "0", "1", ".", "j", "s", "o", "n">>

FILES == {PainFile, KillFile}

\* The segment texts of the directories: a scream ("Argh!"), a text of the
\* block list ("part 2"), a misheard name ("Graph"), a text the corrector
\* removes ("??"); and a segment with no text field.
SAMPLE_SEGMENTS ==
    { [has |-> TRUE, text |-> <<"A", "r", "g", "h", "!">>],
      [has |-> TRUE, text |-> <<"p", "a", "r", "t", " ", "2">>],
      [has |-> TRUE, text |-> <<"G", "r", "a", "p", "h">>],
      [has |-> TRUE, text |-> <<"?", "?">>],
      [has |-> FALSE, text |-> << >>] }

\* The segments of all files of a directory together.
MaxSegments == 2

\* Segment k of a record: a Voiceline segment has a part, a SimpleFile one not.
Segment(k, b, voiceline) ==
    CASE b.has /\ voiceline -> [start |-> k - 1, end |-> k, text |-> b.text, part |-> k]
      [] b.has /\ ~voiceline -> [start |-> k - 1, end |-> k, text |-> b.text]
      [] ~b.has /\ voiceline -> [start |-> k - 1, end |-> k, part |-> k]
      [] OTHER -> [start |-> k - 1, end |-> k]

\* The pain file is a Voiceline, the kill file a SimpleFile.
Record(f, bs) ==
    IF f = PainFile
    THEN [voiceline_id |-> "123", timestamp |-> "2025", segments |-> [k \in 1..Len(bs) |-> Segment(k, bs[k], TRUE)]]
    ELSE [file |-> "kill.wav", segments |-> [k \in 1..Len(bs) |-> Segment(k, bs[k], FALSE)]]

\* A file json.load cannot read (JSONDecodeError, UnicodeDecodeError).
Unreadable == [kind |-> "unreadable"]

Json(data) == [kind |-> "json", data |-> data]

SegmentLists == UNION { [1..n -> SAMPLE_SEGMENTS] : n \in 0..MaxSegments }

Directories ==
    { [f \in FILES |-> IF f = PainFile THEN p ELSE q] :
        p \in {Unreadable} \cup { Json(Record(PainFile, bs)) : bs \in SegmentLists },
        q \in {Unreadable} \cup { Json(Record(KillFile, bs)) : bs \in SegmentLists } }

SegmentCount(content) ==
    IF content.kind = "json" THEN Len(content.data.segments) ELSE 0

Init ==
    /\ disk \in { d \in Directories :
                    SegmentCount(d[PainFile]) + SegmentCount(d[KillFile]) <= MaxSegments }
    /\ orig = disk
    /\ history = << >>
    /\ pc = "idle"
    /\ todo = {}
    /\ all_changes = << >>
    /\ classified = << >>
    /\ writes = {}
    /\ text = << >>
    /\ result = "none"

Next ==
    \/ \E dry \in BOOLEAN : StartFix(dry)
    \/ \E dry \in BOOLEAN : StartScreams(dry)
    \/ \E f \in FILES : FixFile(f)
    \/ \E f \in FILES : ScreamsFile(f)
    \/ Return

Spec == Init /\ [][Next]_vars

---------------------------------------------------------------------------
(* is_hallucinated on single texts *)

\* Texts of the kinds the lists of patterns are about, and texts of no list.
SAMPLE_TEXTS ==
    { <<"T", "h", "a", "n", "k", " ", "y", "o", "u", " ", "f", "o", "r", " ", "w", "a", "t", "c", "h", "i", "n", "g", "!">>,
      <<"S", "u", "b", "s", "c", "r", "i", "b", "e", " ", "t", "o", " ", "m", "y", " ", "c", "h", "a", "n", "n", "e", "l">>,
      <<"A", "h", "h", "h", "!">>,
      <<"A", "r", "g", "h", "!">>,
      <<" ", " ", "U", "g", "h", "!", " ", " ">>,
      <<"N", "o", "o", "o", "!">>,
      <<"G", "R", "R">>,
      <<"a", "m", "o", "g", "u", "s">>,
      <<"c", "o", "n", "t", "r", "o", "l">>,
      <<".", ".", ".">>,
      <<"1", "2">>,
      <<"?", "!">>,
      <<"#">>,
      <<"h", "e", "l", "l", "o">>,
      <<"a", " ", "b", " ", "c", " ", "d", " ", "e">>,
      <<"a", " ", "b", " ", "c", " ", "d", " ", "e", " ", "f", " ", "g">>,
      <<"p", "a", "r", "t", " ", "2">>,
      <<"t", "h", "e", " ", "e", "n", "d">>,
      <<"w", "w", "w", ".", "x">>,
      <<" ", "\t", " ">>,
      <<"\n">> }

\* The characters of the short texts: a vowel, a consonant of the screams, a
\* mark of the screams, a blank, a digit and a mark of no list.
SHORT_ALPHABET == {"A", "h", "!", " ", "2", "#"}

MaxLen == 3

ShortTexts == UNION { [1..n -> SHORT_ALPHABET] : n \in 0..MaxLen }

ClassifierTexts == SAMPLE_TEXTS \cup ShortTexts

InitClassifier ==
    /\ text \in ClassifierTexts
    /\ result = "none"
    /\ pc = "idle"
    /\ disk = << >>
    /\ orig = << >>
    /\ history = << >>
    /\ todo = {}
    /\ all_changes = << >>
    /\ classified = << >>
    /\ writes = {}

\* The loop of process_json_file on the segments [{start, end, text, part}]
\* of a pain file, text being the text at hand.
Classify ==
    /\ pc = "idle"
    /\ result' = clear_segments(PainFile, <<[start |-> 0, end |-> 1, text |-> text, part |-> 1]>>, 1)
    /\ pc' = "done"
    /\ UNCHANGED <<disk, orig, history, todo, all_changes, classified, writes, text>>

SpecClassifier == InitClassifier /\ [][Classify]_vars

---------------------------------------------------------------------------
(* should_process_file on single names *)

\* A file name is a head, a middle and a tail.
NAME_HEADS ==
    { << >>,
      <<"v", "o", "i", "c", "e", "_", "b", "e", "b", "o", "p">>,
      <<"x">> }

\* The five categories, and middles that are none of them.
NAME_MIDDLES ==
    { <<"_", "p", "a", "i", "n", "_", "b", "i", "g", "_">>,
      <<"_", "p", "a", "i", "n", "_", "s", "m", "a", "l", "l", "_">>,
      <<"_", "p", "a", "i", "n", "_", "d", "e", "a", "t", "h", "_">>,
      <<"_", "p", "a", "i", "n", "_", "a", "k", "i", "r", "a", "_", "l", "a", "s", "e", "r", "_">>,
      <<"_", "e", "f", "f", "o", "r", "t", "_">>,
      <<"_", "p", "a", "i", "n", "_">>,
      <<"_", "p", "a", "i", "n", "_", "b", "i", "g">>,
      <<"p", "a", "i", "n", "_", "b", "i", "g", "_">>,
      <<"_", "P", "A", "I", "N", "_", "B", "I", "G", "_">>,
      <<"_", "p", "a", "i", "n", "_", "a", "k", "i", "r", "a", "_">>,
      <<"_", "l", "o", "w", "_", "h", "e", "a", "l", "t", "h", "_", "w", "a", "r", "n", "i", "n", "g", "_">>,
      <<"_", "k", "i", "l", "l", "_">>,
      <<"_", "e", "f", "o", "r", "t", "_">>,
      <<"e", "f", "f", "o", "r", "t">> }

NAME_TAILS ==
    { << >>,
      <<"0", "3", ".", "j", "s", "o", "n">>,
      <<"_">> }

FileNames == { h \o c \o t : h \in NAME_HEADS, c \in NAME_MIDDLES, t \in NAME_TAILS }

InitGate ==
    /\ text \in FileNames
    /\ result = "none"
    /\ pc = "idle"
    /\ disk = << >>
    /\ orig = << >>
    /\ history = << >>
    /\ todo = {}
    /\ all_changes = << >>
    /\ classified = << >>
    /\ writes = {}

Gate ==
    /\ pc = "idle"
    /\ result' = should_process_file(text)
    /\ pc' = "done"
    /\ UNCHANGED <<disk, orig, history, todo, all_changes, classified, writes, text>>

SpecGate == InitGate /\ [][Gate]_vars

---------------------------------------------------------------------------
(* Properties of is_hallucinated, checked under SpecClassifier *)

\* The answer of is_hallucinated for the text at hand.
Verdict == result.seen[1].verdict

\* The stripped text matches an entry of the allow list from its start.
MatchesAllowlist(t) ==
    \E k \in 1..Len(VALID_SCREAM_PATTERNS) : re_match(VALID_SCREAM_PATTERNS[k], t, TRUE)

\* Some entry of the block list that is a regular expression has a match in t.
MatchesBlocklist(t) ==
    \E k \in 1..Len(HALLUCINATION_PATTERNS) :
        /\ ~IsBad(HALLUCINATION_PATTERNS[k])
        /\ re_search(HALLUCINATION_PATTERNS[k], t, TRUE)

IsBlank(t) == \A i \in 1..Len(t) : t[i] \in WHITESPACE

\* The punctuation characters of ASCII.
ASCII_PUNCTUATION ==
    {"!", "\"", "#", "$", "%", "&", "'", "(", ")", "*", "+", ",", "-", ".", "/", ":", ";", "<",
     "=", ">", "?", "@", "[", "\\", "]", "^", "_", "U+0060", "{", "|", "}", "~"}

LetterFree(t) == \A i \in 1..Len(t) : t[i] \in WHITESPACE \cup DIGITS \cup ASCII_PUNCTUATION

\* C1: a text whose stripped form matches an entry of VALID_SCREAM_PATTERNS is
\* answered False before any other check is made, whatever the block list, the
\* punctuation check and the length check would say of it.
C1_AllowlistFirst ==
    (pc = "done" /\ MatchesAllowlist(strip(text))) => Verdict = "False"

\* A scream of the allow list has been classified.
C1_Witness ==
    /\ pc = "done"
    /\ text = <<"A", "h", "h", "h", "!">>
    /\ MatchesAllowlist(strip(text))
    /\ Verdict = "False"

\* C2, as the specification states it: a non-empty stripped text that matches
\* no entry of the allow list and contains a match of an entry of the block list
\* is answered True; "Thank you for watching!" and "Subscribe to my channel" are
\* answered True, "Ahhh!" and "Argh!" False.
C2_BlocklistTrue ==
    pc = "done" =>
        /\ (/\ strip(text) # << >>
            /\ ~MatchesAllowlist(strip(text))
            /\ MatchesBlocklist(strip(text))) => Verdict = "True"
        /\ text \in {<<"T", "h", "a", "n", "k", " ", "y", "o", "u", " ", "f", "o", "r", " ", "w", "a", "t", "c", "h", "i", "n", "g", "!">>, <<"S", "u", "b", "s", "c", "r", "i", "b", "e", " ", "t", "o", " ", "m", "y", " ", "c", "h", "a", "n", "n", "e", "l">>} => Verdict = "True"
        /\ text \in {<<"A", "h", "h", "h", "!">>, <<"A", "r", "g", "h", "!">>} => Verdict = "False"

\* C3, as the specification states it: a non-empty stripped text of whitespace,
\* digits and punctuation only, which matches neither list, is answered True.
C3_LetterFreeTrue ==
    (/\ pc = "done"
     /\ strip(text) # << >>
     /\ ~MatchesAllowlist(strip(text))
     /\ ~MatchesBlocklist(strip(text))
     /\ LetterFree(strip(text))) => Verdict = "True"

\* C4, as the specification states it: a text none of the earlier checks
\* decides is answered True when it has more than five tokens separated by
\* whitespace, and False otherwise.
C4_LengthDecides ==
    (/\ pc = "done"
     /\ strip(text) # << >>
     /\ ~MatchesAllowlist(strip(text))
     /\ ~MatchesBlocklist(strip(text))
     /\ ~LetterFree(strip(text)))
        => Verdict = (IF split_len(strip(text)) > 5 THEN "True" ELSE "False")

\* C5: the empty text and a text of whitespace only are answered False, and
\* the segment is left as it is and not recorded as a change.
C5_BlankFalse ==
    (pc = "done" /\ IsBlank(text)) =>
        /\ Verdict = "False"
        /\ result.changes = << >>
        /\ result.segments[1].text = text
        /\ ~result.raised

\* A text of whitespace only has been classified.
C5_Witness ==
    /\ pc = "done"
    /\ text # << >>
    /\ IsBlank(text)
    /\ Verdict = "False"
    /\ result.changes = << >>

---------------------------------------------------------------------------
(* Properties of should_process_file, checked under SpecGate *)

\* The substrings that name the non-verbal categories.
CATEGORY_SUBSTRINGS ==
    { <<"_", "p", "a", "i", "n", "_", "b", "i", "g", "_">>,
      <<"_", "p", "a", "i", "n", "_", "s", "m", "a", "l", "l", "_">>,
      <<"_", "p", "a", "i", "n", "_", "d", "e", "a", "t", "h", "_">>,
      <<"_", "p", "a", "i", "n", "_", "a", "k", "i", "r", "a", "_", "l", "a", "s", "e", "r", "_">>,
      <<"_", "e", "f", "f", "o", "r", "t", "_">> }

\* sub occurs in s.
Contains(s, sub) ==
    \E i \in 1..(Len(s) - Len(sub) + 1) : SubSeq(s, i, i + Len(sub) - 1) = sub

---------------------------------------------------------------------------
(* Properties of the two scripts, checked under Spec *)

\* Every invocation so far was one of fixHallucinatedScreams.
OnlyScreams == \A i \in 1..Len(history) : history[i][1] = "fixHallucinatedScreams"

\* The name contains the substring of a non-verbal category.
IsCategoryName(f) == \E c \in CATEGORY_SUBSTRINGS : Contains(f, c)

\* A segment differs from what it was in nothing but its text, and its text is
\* what it was or, where is_hallucinated answers True, the empty string.
SegmentFrame(old, new) ==
    /\ DOMAIN new = DOMAIN old
    /\ \A field \in DOMAIN old \ {"text"} : new[field] = old[field]
    /\ "text" \in DOMAIN old =>
          \/ new.text = old.text
          \/ new.text = << >> /\ is_hallucinated(old.text) = "True"

\* A file differs from what it was in the texts of its segments only.
RecordFrame(old, new) ==
    /\ new.kind = old.kind
    /\ old.kind = "json" =>
          /\ DOMAIN new.data = DOMAIN old.data
          /\ \A field \in DOMAIN old.data \ {"segments"} : new.data[field] = old.data[field]
          /\ Len(new.data.segments) = Len(old.data.segments)
          /\ \A k \in 1..Len(old.data.segments) :
                SegmentFrame(old.data.segments[k], new.data.segments[k])

\* C6: fixHallucinatedScreams changes nothing of a record but the texts of
\* hallucinated segments, which become empty: the segments keep their number,
\* their order and their start, end and part, the fields beside segments keep
\* their values, and every other text stays as it was; a run with --apply that
\* returns has emptied every text is_hallucinated answers True for.
C6_ClearingFrame ==
    OnlyScreams =>
        \A f \in FILES :
            /\ RecordFrame(orig[f], disk[f])
            /\ (/\ pc = "done"
                /\ ~dry_run
                /\ IsCategoryName(f)
                /\ orig[f].kind = "json") =>
                  \A k \in 1..Len(orig[f].data.segments) :
                      ("text" \in DOMAIN orig[f].data.segments[k]
                         /\ is_hallucinated(orig[f].data.segments[k].text) = "True")
                      => disk[f].data.segments[k].text = << >>

\* A run with --apply has emptied one segment of the pain file and kept another.
C6_Witness ==
    /\ OnlyScreams
    /\ pc = "done"
    /\ PainFile \in writes
    /\ \E j, k \in 1..Len(disk[PainFile].data.segments) :
          /\ "text" \in DOMAIN orig[PainFile].data.segments[j]
          /\ "text" \in DOMAIN orig[PainFile].data.segments[k]
          /\ orig[PainFile].data.segments[j].text # << >>
          /\ disk[PainFile].data.segments[j].text = << >>
          /\ disk[PainFile].data.segments[k].text # << >>

\* C8: in an invocation of fixHallucinatedScreams a file whose name is of no
\* non-verbal category is never given to is_hallucinated, never entered in the
\* change log and never written, and its content stays what it was, whatever
\* its segments say and whether or not --apply is given.
C8_IneligibleUntouched ==
    script = "fixHallucinatedScreams" =>
        \A f \in FILES :
            ~IsCategoryName(f) =>
                /\ f \notin writes
                /\ \A i \in 1..Len(all_changes) : all_changes[i].file # f
                /\ \A i \in 1..Len(classified) : classified[i].file # f
                /\ OnlyScreams => disk[f] = orig[f]

\* A run with --apply has returned, the kill file holding a text of the block list.
C8_Witness ==
    /\ script = "fixHallucinatedScreams"
    /\ ~dry_run
    /\ pc = "done"
    /\ disk[KillFile].kind = "json"
    /\ \E k \in 1..Len(disk[KillFile].data.segments) :
          /\ "text" \in DOMAIN disk[KillFile].data.segments[k]
          /\ is_hallucinated(disk[KillFile].data.segments[k].text) = "True"

\* The text the segment of a call of is_hallucinated had before the first invocation.
RawText(call) == orig[call.file].data.segments[call.segment].text

OtherFile(f) == IF f = PainFile THEN KillFile ELSE PainFile

\* C10: fix_text answers the same under either file name, and a first
\* invocation of autoFixWhisperErrors that returns has applied it to every
\* segment with a text of every file it could load, of a non-verbal category or
\* not: each rewritten text is in the change log and, with --apply, in the file.
C10_CorrectorEverywhere ==
    (Len(history) = 1 /\ script = "autoFixWhisperErrors" /\ pc = "done") =>
        \A f \in FILES :
            orig[f].kind = "json" =>
                \A k \in 1..Len(orig[f].data.segments) :
                    "text" \in DOMAIN orig[f].data.segments[k] =>
                        \E fixed \in {fix_text(orig[f].data.segments[k].text, OtherFile(f))} :
                            /\ fixed = fix_text(orig[f].data.segments[k].text, f)
                            /\ ~dry_run => disk[f].data.segments[k].text = fixed
                            /\ fixed # orig[f].data.segments[k].text =>
                                  \E i \in 1..Len(all_changes) :
                                      all_changes[i] = [file |-> f,
                                                        original |-> orig[f].data.segments[k].text,
                                                        fixed |-> fixed]

\* A run with --apply has rewritten a text of the pain file and one of the kill file.
C10_Witness ==
    /\ Len(history) = 1
    /\ script = "autoFixWhisperErrors"
    /\ pc = "done"
    /\ writes = {PainFile, KillFile}
    /\ disk[PainFile] # orig[PainFile]
    /\ disk[KillFile] # orig[KillFile]

---------------------------------------------------------------------------
(* fix_text on single texts *)

\* Misheard names of CHARACTER_NAME_CORRECTIONS.
SAMPLE_ALIASES == { <<"Q", "u", "i", "l", "l">>, <<"I", "v", "e", "y">>, <<"G", "r", "a", "p", "h">>, <<"P", "y", "k", "e">> }

ToLower(s) == [i \in DOMAIN s |-> lower(s[i])]
ToUpper(s) == [i \in DOMAIN s |-> upper(s[i])]

\* A misheard name alone, in other case, inside a longer token, beside
\* punctuation, twice, and after "Stone".
AliasTexts ==
    UNION { { w, ToLower(w), ToUpper(w), w \o <<"w", "a", "l", "l">>, <<"x">> \o w, w \o <<"_">>, w \o <<"2">>,
              w \o <<"'", "s">>, w \o <<",", " ">> \o w \o <<"!">>, <<"S", "t", "o", "n", "e", " ">> \o w } : w \in SAMPLE_ALIASES }

\* Texts of the phrase rules: rules that feed later rules, a rule that feeds
\* an earlier one, a rule with two matches, compounds, and texts of no rule.
SAMPLE_PHRASES ==
    { <<"H", "e", " ", "t", "o", "o", "k", " ", "o", "u", "t", " ", "p", "a", "g", "e">>,
      <<"L", "e", "t", "'", "s", " ", "t", "a", "l", "k", " ", "a", "b", "o", "u", "t", " ", "g", "r", "a", "p", "h">>,
      <<"S", "t", "o", "n", "e", " ", "R", "a", "c", "e", "d", "o", "w", "n">>,
      <<"S", "t", "a", "m", "i", "n", "a", " ", "S", "t", "a", "m", "i", "n", "a">>,
      <<"S", "t", "o", "n", "e", "y", "a", "m", "a", "t", "o">>,
      <<"S", "t", "o", "n", "e", "w", "a", "l", "l">>,
      <<"S", "t", "o", "n", "e">>,
      <<"S", "t", "o", "n", "e", " ", "h", "i", "m">>,
      <<"S", "t", "a", "n">>,
      <<"S", "t", "a", "n", " ", "S", "e", "v", "e", "n">>,
      <<"P", "l", "e", "a", "s", "e", " ", "s", "u", "b", "s", "c", "r", "i", "b", "e">>,
      <<"P", "l", "e", "a", "s", "e", " ", "s", "u", "b", "s", "c", "r", "i", "b", "e", "!">>,
      <<"T", "h", "a", "n", "k", " ", "y", "o", "u", " ", "f", "o", "r", " ", "w", "a", "t", "c", "h", "i", "n", "g", "!">>,
      <<"T", "h", "a", "n", "k", "s", " ", "f", "o", "r", " ", "w", "a", "t", "c", "h", "i", "n", "g">>,
      <<"T", "h", "a", "n", "k", " ", "y", "o", "u", " ", "f", "o", "r", " ", "w", "a", "t", "c", "h", "i", "n", "g", "!", " ", "B", "y", "e">>,
      <<"H", "e", "l", "l", "o", " ", "?", "?">>,
      <<" ", " ", "?", "?", " ", " ">>,
      <<"?", "?", "?">>,
      <<"?", "?", "\n">>,
      <<"?", "?">>,
      <<"A", "r", "g", "h", "!">>,
      << >> }

CorrectorTexts == AliasTexts \cup SAMPLE_PHRASES

InitCorrector ==
    /\ text \in CorrectorTexts
    /\ result = << >>
    /\ pc = "idle"
    /\ disk = << >>
    /\ orig = << >>
    /\ history = << >>
    /\ todo = {}
    /\ all_changes = << >>
    /\ classified = << >>
    /\ writes = {}

\* fix_text(original, filepath.name) on the text at hand.
Correct ==
    /\ pc = "idle"
    /\ result' = <<fix_text(text, PainFile)>>
    /\ pc' = "done"
    /\ UNCHANGED <<disk, orig, history, todo, all_changes, classified, writes, text>>

\* fix_text on a text an earlier run of it has left in the file.
CorrectAgain ==
    /\ pc = "done"
    /\ Len(result) = 1
    /\ result' = Append(result, fix_text(result[1], PainFile))
    /\ pc' = "done"
    /\ UNCHANGED <<disk, orig, history, todo, all_changes, classified, writes, text>>

NextCorrector == Correct \/ CorrectAgain

SpecCorrector == InitCorrector /\ [][NextCorrector]_vars

---------------------------------------------------------------------------
(* Properties of fix_text, checked under SpecCorrector *)

\* fix_text has been applied once to the text at hand.
Corrected == pc = "done" /\ Len(result) = 1

\* The texts whose passage through the phrase rules is followed rule by rule.
STAGED_TEXTS ==
    { <<"H", "e", " ", "t", "o", "o", "k", " ", "o", "u", "t", " ", "p", "a", "g", "e">>,
      <<"S", "t", "o", "n", "e", " ", "R", "a", "c", "e", "d", "o", "w", "n">> }

\* What the first k phrase rules make of s.
Stage(s, k) == apply_phrases(s, 1, k)

\* C11: fix_text applies each phrase rule once, in the order of
\* PHRASE_CORRECTIONS, to what the rules before it have made of the text, and
\* replaces every match of the rule: a later rule rewrites what an earlier one
\* produced ("Let's talk about graph" becomes "They took out Graf"), an
\* earlier rule does not see what a later one produced, and a rule with two
\* matches replaces both.
C11_PhrasesInOrder ==
    Corrected =>
        /\ text \in STAGED_TEXTS =>
              /\ Stage(text, 0) = text
              /\ \A k \in 1..Len(PHRASE_CORRECTIONS) :
                    Stage(text, k) = re_sub(PHRASE_CORRECTIONS[k][1], PHRASE_CORRECTIONS[k][2],
                                            Stage(text, k - 1), FALSE)
              /\ result[1] = apply_names(Stage(text, Len(PHRASE_CORRECTIONS)),
                                         1, Len(CHARACTER_NAME_CORRECTIONS))
        /\ text = <<"L", "e", "t", "'", "s", " ", "t", "a", "l", "k", " ", "a", "b", "o", "u", "t", " ", "g", "r", "a", "p", "h">> => result[1] = <<"T", "h", "e", "y", " ", "t", "o", "o", "k", " ", "o", "u", "t", " ", "G", "r", "a", "f">>
        /\ text = <<"H", "e", " ", "t", "o", "o", "k", " ", "o", "u", "t", " ", "p", "a", "g", "e">> => result[1] = <<"T", "h", "e", "y", " ", "t", "o", "o", "k", " ", "o", "u", "t", " ", "P", "a", "i", "g", "e">>
        /\ text = <<"S", "t", "o", "n", "e", " ", "R", "a", "c", "e", "d", "o", "w", "n">> => result[1] = <<"S", "t", "o", "n", "e", " ", "W", "r", "a", "i", "t", "h", " ", "d", "o", "w", "n">>
        /\ text = <<"S", "t", "a", "m", "i", "n", "a", " ", "S", "t", "a", "m", "i", "n", "a">> => result[1] = <<"S", "t", "u", "n", " ", "M", "i", "n", "a", " ", "S", "t", "u", "n", " ", "M", "i", "n", "a">>

\* A text has been rewritten by the rule for "He took out" and then by the
\* later rule for "They took out page".
C11_Witness ==
    /\ Corrected
    /\ text = <<"H", "e", " ", "t", "o", "o", "k", " ", "o", "u", "t", " ", "p", "a", "g", "e">>
    /\ Stage(text, 4) = <<"T", "h", "e", "y", " ", "t", "o", "o", "k", " ", "o", "u", "t", " ", "p", "a", "g", "e">>
    /\ result[1] = <<"T", "h", "e", "y", " ", "t", "o", "o", "k", " ", "o", "u", "t", " ", "P", "a", "i", "g", "e">>

\* The canonical name the table gives for a misheard one.
Canonical(w) ==
    CHARACTER_NAME_CORRECTIONS[CHOOSE k \in 1..Len(CHARACTER_NAME_CORRECTIONS) :
                                   CHARACTER_NAME_CORRECTIONS[k][1] = w][2]

\* w occurs in s, in any case, with no letter, digit or underscore on either side.
HasWord(s, w) ==
    \E i \in 1..(Len(s) - Len(w) + 1) :
        /\ ToLower(SubSeq(s, i, i + Len(w) - 1)) = ToLower(w)
        /\ i = 1 \/ s[i - 1] \notin WORD
        /\ i + Len(w) - 1 = Len(s) \/ s[i + Len(w)] \notin WORD

\* What the first k name rules make of p, the text the phrase rules have left.
NameStage(p, k) == apply_names(p, 1, k)

\* C12: after the phrase rules fix_text takes the misheard names in the order
\* of the table and replaces each occurrence of one as a whole word, in any
\* case, by its canonical name; a misheard name inside a longer token of
\* letters and digits stays.
C12_NamesWholeWord ==
    Corrected =>
        /\ \E p \in {Stage(text, Len(PHRASE_CORRECTIONS))} :
              /\ NameStage(p, 0) = p
              /\ \A k \in 1..Len(CHARACTER_NAME_CORRECTIONS) :
                    NameStage(p, k) =
                        re_sub(Cat(<<Wb, Lit(CHARACTER_NAME_CORRECTIONS[k][1]), Wb>>),
                               CHARACTER_NAME_CORRECTIONS[k][2], NameStage(p, k - 1), TRUE)
              /\ result[1] = NameStage(p, Len(CHARACTER_NAME_CORRECTIONS))
        /\ \A k \in 1..Len(CHARACTER_NAME_CORRECTIONS) :
              ~HasWord(result[1], CHARACTER_NAME_CORRECTIONS[k][1])
        /\ \A w \in SAMPLE_ALIASES :
              /\ text \in {w, ToLower(w), ToUpper(w)} => result[1] = Canonical(w)
              /\ text = w \o <<"'", "s">> => result[1] = Canonical(w) \o <<"'", "s">>
              /\ text = w \o <<",", " ">> \o w \o <<"!">>
                    => result[1] = Canonical(w) \o <<",", " ">> \o Canonical(w) \o <<"!">>
              /\ text \in {w \o <<"w", "a", "l", "l">>, <<"x">> \o w, w \o <<"2">>} => result[1] = text

\* A misheard name in lower case has been replaced, twice in one text.
C12_Witness ==
    /\ Corrected
    /\ \E w \in SAMPLE_ALIASES :
          /\ text = w \o <<",", " ">> \o w \o <<"!">>
          /\ HasWord(text, w)
          /\ result[1] = Canonical(w) \o <<",", " ">> \o Canonical(w) \o <<"!">>

\* C13, as the specification states it: fix_text applied to a text it has
\* produced changes nothing.
C13_Idempotent ==
    (pc = "done" /\ Len(result) = 2) => result[2] = result[1]

\* C14: "Stoneyamato" becomes "Stun Yamato" by the rule written for it, and a
\* token that only begins with a misheard name and has no rule of its own,
\* such as "Stonewall", is returned as it is.
C14_WordBoundary ==
    Corrected =>
        /\ text = <<"S", "t", "o", "n", "e", "y", "a", "m", "a", "t", "o">> => result[1] = <<"S", "t", "u", "n", " ", "Y", "a", "m", "a", "t", "o">>
        /\ text = <<"S", "t", "o", "n", "e", "w", "a", "l", "l">> => result[1] = text
        /\ \A w \in SAMPLE_ALIASES : text = w \o <<"w", "a", "l", "l">> => result[1] = text

\* The compound with a rule has been rewritten.
C14_Witness ==
    /\ Corrected
    /\ text = <<"S", "t", "o", "n", "e", "y", "a", "m", "a", "t", "o">>
    /\ result[1] = <<"S", "t", "u", "n", " ", "Y", "a", "m", "a", "t", "o">>
    /\ ~HasWord(text, <<"S", "t", "o", "n", "e">>)

---------------------------------------------------------------------------
(* validate_json.py *)

\* The values json.load returns, by their Python type.
JStr(s) == [type |-> "str", str |-> s]
JInt(n) == [type |-> "int", int |-> n]
JFloat(s) == [type |-> "float", float |-> s]
JBool(b) == [type |-> "bool", bool |-> b]
JNull == [type |-> "NoneType"]
JList(items) == [type |-> "list", items |-> items]
JDict(fields) == [type |-> "dict", fields |-> fields]

\* isinstance(v, str), isinstance(v, list), isinstance(v, dict)
is_str(v) == v.type = "str"
is_list(v) == v.type = "list"
is_dict(v) == v.type = "dict"

\* isinstance(v, (int, float)): bool is a subclass of int.
is_int_or_float(v) == v.type \in {"int", "float", "bool"}

\* isinstance(v, int)
is_int(v) == v.type \in {"int", "bool"}

\* "field in data"
has(data, field) == field \in DOMAIN data.fields

\* The required fields examined from the last to the first.
RECURSIVE last_missing(_, _, _)
last_missing(segment, required_fields, k) ==
    IF k > Len(required_fields) THEN ""
    ELSE IF last_missing(segment, required_fields, k + 1) # ""
    THEN last_missing(segment, required_fields, k + 1)
    ELSE IF ~has(segment, required_fields[k]) THEN required_fields[k]
    ELSE ""

\* "for field in required_fields: if field not in segment": the first field
\* of required_fields, from the k-th on, that the segment lacks, or "".
RECURSIVE first_missing(_, _, _)
first_missing(segment, required_fields, k) ==
    IF k > Len(required_fields) THEN ""
    ELSE IF ~has(segment, required_fields[k]) THEN required_fields[k]
    ELSE first_missing(segment, required_fields, k + 1)

\* The loop of is_valid_voiceline over data["segments"] from index idx on:
\* the message of the first violation, or "" when there is none.
RECURSIVE voiceline_segments(_, _)
voiceline_segments(segments, idx) ==
    IF idx >= Len(segments) THEN ""
    ELSE IF ~is_dict(segments[idx + 1])
    THEN "Segment " \o ToString(idx) \o " must be a dictionary"
    ELSE IF first_missing(segments[idx + 1], <<"start", "end", "text", "part">>, 1) # ""
    THEN "Segment " \o ToString(idx) \o " missing required field '"
            \o first_missing(segments[idx + 1], <<"start", "end", "text", "part">>, 1) \o "'"
    ELSE IF ~is_int_or_float(segments[idx + 1].fields["start"])
    THEN "Segment " \o ToString(idx) \o " 'start' must be a number"
    ELSE IF ~is_int_or_float(segments[idx + 1].fields["end"])
    THEN "Segment " \o ToString(idx) \o " 'end' must be a number"
    ELSE IF ~is_str(segments[idx + 1].fields["text"])
    THEN "Segment " \o ToString(idx) \o " 'text' must be a string"
    ELSE IF ~is_int(segments[idx + 1].fields["part"])
    THEN "Segment " \o ToString(idx) \o " 'part' must be an integer"
    ELSE voiceline_segments(segments, idx + 1)

is_valid_voiceline(data) ==
    IF ~has(data, "voiceline_id") THEN <<FALSE, "Missing 'voiceline_id' field">>
    ELSE IF ~is_str(data.fields["voiceline_id"]) THEN <<FALSE, "'voiceline_id' must be a string">>
    ELSE IF ~has(data, "timestamp") THEN <<FALSE, "Missing 'timestamp' field">>
    ELSE IF ~is_str(data.fields["timestamp"]) THEN <<FALSE, "'timestamp' must be a string">>
    ELSE IF ~has(data, "segments") THEN <<FALSE, "Missing 'segments' field">>
    ELSE IF ~is_list(data.fields["segments"]) THEN <<FALSE, "'segments' must be a list">>
    ELSE IF voiceline_segments(data.fields["segments"].items, 0) # ""
    THEN <<FALSE, voiceline_segments(data.fields["segments"].items, 0)>>
    ELSE <<TRUE, "Valid voiceline structure">>

\* The loop of is_valid_simple_file over data["segments"].
RECURSIVE simple_file_segments(_, _)
simple_file_segments(segments, idx) ==
    IF idx >= Len(segments) THEN ""
    ELSE IF ~is_dict(segments[idx + 1])
    THEN "Segment " \o ToString(idx) \o " must be a dictionary"
    ELSE IF first_missing(segments[idx + 1], <<"start", "end", "text">>, 1) # ""
    THEN "Segment " \o ToString(idx) \o " missing required field '"
            \o first_missing(segments[idx + 1], <<"start", "end", "text">>, 1) \o "'"
    ELSE IF ~is_int_or_float(segments[idx + 1].fields["start"])
    THEN "Segment " \o ToString(idx) \o " 'start' must be a number"
    ELSE IF ~is_int_or_float(segments[idx + 1].fields["end"])
    THEN "Segment " \o ToString(idx) \o " 'end' must be a number"
    ELSE IF ~is_str(segments[idx + 1].fields["text"])
    THEN "Segment " \o ToString(idx) \o " 'text' must be a string"
    ELSE simple_file_segments(segments, idx + 1)

is_valid_simple_file(data) ==
    IF ~has(data, "file") THEN <<FALSE, "Missing 'file' field">>
    ELSE IF ~is_str(data.fields["file"]) THEN <<FALSE, "'file' must be a string">>
    ELSE IF ~has(data, "segments") THEN <<FALSE, "Missing 'segments' field">>
    ELSE IF ~is_list(data.fields["segments"]) THEN <<FALSE, "'segments' must be a list">>
    ELSE IF simple_file_segments(data.fields["segments"].items, 0) # ""
    THEN <<FALSE, simple_file_segments(data.fields["segments"].items, 0)>>
    ELSE <<TRUE, "Valid simple file structure">>

\* The two structures tried in the other order: "file" before "voiceline_id".
validate_json_file_file_first(file) ==
    IF file.kind = "not json" THEN <<FALSE, "Invalid JSON: ...">>
    ELSE IF file.kind = "unreadable" THEN <<FALSE, "Error reading file: ...">>
    ELSE IF ~is_dict(file.data) THEN <<FALSE, "JSON root must be an object">>
    ELSE IF has(file.data, "file") THEN is_valid_simple_file(file.data)
    ELSE IF has(file.data, "voiceline_id") THEN is_valid_voiceline(file.data)
    ELSE <<FALSE, "Unknown JSON structure - does not match any expected format">>

\* validate_json_file on a file: one that cannot be opened or decoded, one
\* that is no JSON text, or one json.load returns the value data for.
validate_json_file(file) ==
    IF file.kind = "not json" THEN <<FALSE, "Invalid JSON: ...">>
    ELSE IF file.kind = "unreadable" THEN <<FALSE, "Error reading file: ...">>
    ELSE IF ~is_dict(file.data) THEN <<FALSE, "JSON root must be an object">>
    ELSE IF has(file.data, "voiceline_id") THEN is_valid_voiceline(file.data)
    ELSE IF has(file.data, "file") THEN is_valid_simple_file(file.data)
    ELSE <<FALSE, "Unknown JSON structure - does not match any expected format">>

---------------------------------------------------------------------------
(* validate_json_file on single files *)

\* A field a dictionary does not have.
ABSENT == [type |-> "absent"]

\* The dictionary with the given values under the given keys, less the absent ones.
RECURSIVE fields_of(_, _, _)
fields_of(keys, values, k) ==
    IF k > Len(keys) THEN << >>
    ELSE IF values[k] = ABSENT THEN fields_of(keys, values, k + 1)
    ELSE (keys[k] :> values[k]) @@ fields_of(keys, values, k + 1)

Dict(keys, values) == JDict(fields_of(keys, values, 1))

\* What a segment may hold under start, end, text and part: nothing, a value
\* of the type the structure asks for, or a value of another type.
START_VALUES ==
    { ABSENT, JInt(0), JFloat("0.5"), JBool(TRUE), JNull, JStr("0"), JList(<< >>),
      JDict(<< >>) }
END_VALUES == { ABSENT, JFloat("1.5"), JBool(FALSE), JStr("1") }
TEXT_VALUES == { ABSENT, JStr("hi"), JInt(1) }
PART_VALUES == { ABSENT, JInt(1), JFloat("1.0"), JBool(TRUE), JStr("1") }

\* The segments of the lists of one segment.
SingleSegments ==
    { Dict(<<"start", "end", "text", "part">>, <<s, e, t, p>>) :
        s \in START_VALUES, e \in END_VALUES, t \in TEXT_VALUES, p \in PART_VALUES }
    \cup { JInt(7), JStr("segment"), JNull, JList(<< >>) }

\* The segments of the longer lists: a segment with a part, one without, one
\* that is no dictionary, and segments with one or two violations.
LIST_SEGMENTS ==
    { Dict(<<"start", "end", "text", "part">>, <<JInt(0), JFloat("1.5"), JStr("hi"), JInt(1)>>),
      Dict(<<"start", "end", "text">>, <<JInt(0), JFloat("1.5"), JStr("hi")>>),
      JInt(7),
      Dict(<<"start", "text", "part">>, <<JInt(0), JStr("hi"), JInt(1)>>),
      Dict(<<"start", "end", "text", "part">>, <<JInt(0), JFloat("1.5"), JInt(1), JInt(1)>>),
      Dict(<<"start", "end", "text">>, <<JStr("0"), JFloat("1.5"), JStr("hi")>>),
      Dict(<<"start", "end", "text", "part">>, <<JInt(0), JBool(TRUE), JStr("hi"), JBool(FALSE)>>) }

\* The length of the longer lists of segments.
MaxRecordSegments == 2

SegmentsValues ==
    { ABSENT, JStr("segments"), JDict(<< >>) }
    \cup { JList(<<s>>) : s \in SingleSegments }
    \cup { JList(l) : l \in UNION { [1..n -> LIST_SEGMENTS] : n \in 0..MaxRecordSegments } }

\* The values json.load returns for the files: objects with and without each
\* of voiceline_id, timestamp, file and segments, and values that are no object.
JsonRoots ==
    { Dict(<<"voiceline_id", "timestamp", "file", "segments">>, <<v, t, f, s>>) :
        v \in {ABSENT, JStr("123"), JInt(123)},
        t \in {ABSENT, JStr("2025"), JNull},
        f \in {ABSENT, JStr("x.json"), JInt(5)},
        s \in SegmentsValues }
    \cup { JNull, JInt(5), JFloat("0.5"), JBool(TRUE), JStr("text"), JList(<< >>),
           JList(<<JDict(<< >>)>>) }

ValidatorFiles ==
    { [kind |-> "json", data |-> d] : d \in JsonRoots }
    \cup { [kind |-> "not json"], [kind |-> "unreadable"] }

InitValidate ==
    /\ text \in ValidatorFiles
    /\ result = "none"
    /\ pc = "idle"
    /\ disk = << >>
    /\ orig = << >>
    /\ history = << >>
    /\ todo = {}
    /\ all_changes = << >>
    /\ classified = << >>
    /\ writes = {}

\* "is_valid, message = validate_json_file(json_file)" on the file at hand.
Validate ==
    /\ pc = "idle"
    /\ result' = validate_json_file(text)
    /\ pc' = "done"
    /\ UNCHANGED <<disk, orig, history, todo, all_changes, classified, writes, text>>

SpecValidate == InitValidate /\ [][Validate]_vars

---------------------------------------------------------------------------
(* The validator on one file *)

\* validate_json_file has returned for a file json.load could read.
Validated == pc = "done" /\ text.kind = "json"

\* ... and the value read is an object.
ValidatedObject == Validated /\ is_dict(text.data)

\* The file holding the object with the given fields.
JsonFile(keys, values) == [kind |-> "json", data |-> Dict(keys, values)]

\* C15: validate_json_file returns (False, "JSON root must be an object") for
\* a root that is no object; for an object with voiceline_id it returns what
\* is_valid_voiceline returns, whether or not file is present too; for an
\* object without voiceline_id and with file it returns what
\* is_valid_simple_file returns; for an object with neither it returns
\* (False, "Unknown JSON structure - does not match any expected format").
\* The message of a valid record names the structure that was validated.
C15_Dispatch ==
    Validated =>
        IF ~is_dict(text.data)
        THEN result = <<FALSE, "JSON root must be an object">>
        ELSE IF has(text.data, "voiceline_id")
        THEN /\ result = is_valid_voiceline(text.data)
             /\ result[1] => result[2] = "Valid voiceline structure"
        ELSE IF has(text.data, "file")
        THEN /\ result = is_valid_simple_file(text.data)
             /\ result[1] => result[2] = "Valid simple file structure"
        ELSE result = <<FALSE, "Unknown JSON structure - does not match any expected format">>

\* An object with both voiceline_id and file, whose segment lacks "part": it
\* is validated as a voiceline and found invalid, though it is a valid simple file.
C15_Witness ==
    /\ pc = "done"
    /\ text = JsonFile(<<"voiceline_id", "timestamp", "file", "segments">>,
                       <<JStr("123"), JStr("2025"), JStr("x.json"),
                         JList(<<Dict(<<"start", "end", "text">>,
                                      <<JInt(0), JFloat("1.5"), JStr("hi")>>)>>)>>)
    /\ result = <<FALSE, "Segment 0 missing required field 'part'">>
    /\ is_valid_simple_file(text.data) = <<TRUE, "Valid simple file structure">>

\* The name of the type a top-level field or a segment field must have.
TypeName(field) ==
    IF field \in {"voiceline_id", "timestamp", "file", "text"} THEN "a string"
    ELSE IF field = "segments" THEN "a list"
    ELSE IF field = "part" THEN "an integer"
    ELSE "a number"

\* Whether the validator takes the value for one of the type of the field.
TypeOk(field, v) ==
    IF field \in {"voiceline_id", "timestamp", "file", "text"} THEN is_str(v)
    ELSE IF field = "segments" THEN is_list(v)
    ELSE IF field = "part" THEN is_int(v)
    ELSE is_int_or_float(v)

\* The violations of the top-level fields, in declaration order: for each
\* field its absence, or else its wrong type.
RECURSIVE TopViolations(_, _, _)
TopViolations(data, fields, k) ==
    IF k > Len(fields) THEN << >>
    ELSE (IF ~has(data, fields[k])
          THEN <<"Missing '" \o fields[k] \o "' field">>
          ELSE IF ~TypeOk(fields[k], data.fields[fields[k]])
          THEN <<"'" \o fields[k] \o "' must be " \o TypeName(fields[k])>>
          ELSE << >>)
         \o TopViolations(data, fields, k + 1)

\* The required fields a segment lacks, in the order of required.
RECURSIVE MissingFields(_, _, _, _)
MissingFields(segment, idx, required, k) ==
    IF k > Len(required) THEN << >>
    ELSE (IF ~has(segment, required[k])
          THEN <<"Segment " \o ToString(idx) \o " missing required field '" \o required[k] \o "'">>
          ELSE << >>)
         \o MissingFields(segment, idx, required, k + 1)

\* The required fields of a segment that hold a value of the wrong type.
RECURSIVE WrongTypes(_, _, _, _)
WrongTypes(segment, idx, required, k) ==
    IF k > Len(required) THEN << >>
    ELSE (IF has(segment, required[k]) /\ ~TypeOk(required[k], segment.fields[required[k]])
          THEN <<"Segment " \o ToString(idx) \o " '" \o required[k] \o "' must be "
                    \o TypeName(required[k])>>
          ELSE << >>)
         \o WrongTypes(segment, idx, required, k + 1)

\* The violations of the segments from index idx on, in ascending index;
\* within a segment that is a dictionary the missing fields come first, then
\* the wrongly typed ones, each in the order of required.
RECURSIVE SegmentViolations(_, _, _)
SegmentViolations(segments, idx, required) ==
    IF idx >= Len(segments) THEN << >>
    ELSE (IF ~is_dict(segments[idx + 1])
          THEN <<"Segment " \o ToString(idx) \o " must be a dictionary">>
          ELSE MissingFields(segments[idx + 1], idx, required, 1)
               \o WrongTypes(segments[idx + 1], idx, required, 1))
         \o SegmentViolations(segments, idx + 1, required)

\* Every violation of a record, in the order the validator examines them.
Violations(data, top, required) ==
    TopViolations(data, top, 1)
    \o (IF has(data, "segments") /\ is_list(data.fields["segments"])
        THEN SegmentViolations(data.fields["segments"].items, 0, required)
        ELSE << >>)

\* The violations of a record under the structure validate_json_file picks for it.
RecordViolations(data) ==
    IF has(data, "voiceline_id")
    THEN Violations(data, <<"voiceline_id", "timestamp", "segments">>,
                    <<"start", "end", "text", "part">>)
    ELSE Violations(data, <<"file", "segments">>, <<"start", "end", "text">>)

\* C16: for a record with one of the identifying fields, validate_json_file
\* returns one message: that of the first violation, where the violations are
\* ordered by top-level field in declaration order (a field's absence, or
\* else its wrong type), then by segment in ascending index, and within a
\* segment by the absence of start, end, text, part in that order and then by
\* the wrong type of start, end, text, part in that order.  A record without
\* violation is valid.  {"voiceline_id": "123"} yields "Missing 'timestamp' field".
C16_FirstViolation ==
    /\ (ValidatedObject /\ (has(text.data, "voiceline_id") \/ has(text.data, "file"))) =>
          \E v \in {RecordViolations(text.data)} :
              IF v = << >> THEN result[1]
              ELSE result = <<FALSE, v[1]>>
    /\ (pc = "done" /\ text = JsonFile(<<"voiceline_id">>, <<JStr("123")>>)) =>
          result = <<FALSE, "Missing 'timestamp' field">>

\* A voiceline whose segment 0 lacks "end" and whose segment 1 is no
\* dictionary: only the violation of segment 0 is reported.
C16_Witness ==
    /\ pc = "done"
    /\ text = JsonFile(<<"voiceline_id", "timestamp", "segments">>,
                       <<JStr("123"), JStr("2025"),
                         JList(<<Dict(<<"start", "text", "part">>,
                                      <<JInt(0), JStr("hi"), JInt(1)>>),
                                 JInt(7)>>)>>)
    /\ result = <<FALSE, "Segment 0 missing required field 'end'">>

\* A JSON number, and a JSON integer.
IsJsonNumber(v) == v.type \in {"int", "float"}
IsJsonInteger(v) == v.type = "int"

\* The segment is an object with start and end JSON numbers, text a JSON
\* string and, where part is required, part a JSON integer.
SegmentConforms(segment, with_part) ==
    /\ is_dict(segment)
    /\ has(segment, "start") /\ IsJsonNumber(segment.fields["start"])
    /\ has(segment, "end") /\ IsJsonNumber(segment.fields["end"])
    /\ has(segment, "text") /\ is_str(segment.fields["text"])
    /\ with_part => (has(segment, "part") /\ IsJsonInteger(segment.fields["part"]))

\* The record conforms to the structure its identifying field selects.
Conforms(data) ==
    /\ has(data, "segments") /\ is_list(data.fields["segments"])
    /\ IF has(data, "voiceline_id")
       THEN /\ is_str(data.fields["voiceline_id"])
            /\ has(data, "timestamp") /\ is_str(data.fields["timestamp"])
            /\ \A i \in 1..Len(data.fields["segments"].items) :
                   SegmentConforms(data.fields["segments"].items[i], TRUE)
       ELSE /\ has(data, "file") /\ is_str(data.fields["file"])
            /\ \A i \in 1..Len(data.fields["segments"].items) :
                   SegmentConforms(data.fields["segments"].items[i], FALSE)

\* C17: validate_json_file reports a record valid exactly when it conforms to
\* its structure, a boolean in the place of a number or of an integer being
\* no conformance; a simple file whose segments have no part is valid with
\* the message "Valid simple file structure".
C17_Acceptance ==
    /\ ValidatedObject => (result[1] <=> Conforms(text.data))
    /\ (pc = "done" /\ text = JsonFile(<<"file", "segments">>,
                                       <<JStr("x.json"),
                                         JList(<<Dict(<<"start", "end", "text">>,
                                                      <<JInt(0), JFloat("1.5"), JStr("hi")>>)>>)>>))
          => result = <<TRUE, "Valid simple file structure">>

\* C18: a record validate_json_file reports valid has exactly one of the
\* fields voiceline_id and file.
C18_OneShape ==
    (ValidatedObject /\ result[1]) =>
        (has(text.data, "voiceline_id") # has(text.data, "file"))

---------------------------------------------------------------------------
(* validate_all_json_files and main of validate_json.py *)

\* "data_dir.exists()"
exists(data_dir) == data_dir = "directory"

\* The body of "for json_file in json_files" counting every file as valid too.
count_file_always_valid(counts, json_file, r) ==
    IF r[1] THEN [counts EXCEPT !.valid_files = @ + 1]
    ELSE [counts EXCEPT !.valid_files = @ + 1, !.errors = Append(@, <<json_file, r[2]>>)]

\* The body of "for json_file in json_files", r being what validate_json_file
\* returned for json_file.
count_file(counts, json_file, r) ==
    IF r[1] THEN [counts EXCEPT !.valid_files = @ + 1]
    ELSE [counts EXCEPT !.errors = Append(@, <<json_file, r[2]>>)]

\* validate_all_json_files up to its loop.
StartValidator ==
    /\ pc = "idle"
    /\ IF ~exists(text)
       THEN /\ result' = [total_files |-> 0, valid_files |-> 0, errors |-> << >>]
            /\ todo' = {}
            /\ pc' = "returned"
       ELSE /\ result' = [total_files |-> Cardinality(DOMAIN disk), valid_files |-> 0,
                          errors |-> << >>]
            /\ todo' = DOMAIN disk
            /\ pc' = "validating"
    /\ UNCHANGED <<disk, orig, history, all_changes, classified, writes, text>>

\* One turn of "for json_file in json_files", in the order glob lists them.
ValidateFile(f) ==
    /\ pc = "validating"
    /\ f \in todo
    /\ result' = count_file(result, f, validate_json_file(disk[f]))
    /\ history' = Append(history, f)
    /\ todo' = todo \ {f}
    /\ UNCHANGED <<disk, orig, pc, all_changes, classified, writes, text>>

\* "return total_files, valid_files, errors"
ReturnValidator ==
    /\ pc = "validating"
    /\ todo = {}
    /\ pc' = "returned"
    /\ UNCHANGED <<disk, orig, history, todo, all_changes, classified, writes, text, result>>

\* main: "sys.exit(1)" when there are errors, "sys.exit(0)" otherwise.
Exit ==
    /\ pc = "returned"
    /\ pc' = IF result.errors # << >> THEN "exit 1" ELSE "exit 0"
    /\ UNCHANGED <<disk, orig, history, todo, all_changes, classified, writes, text, result>>

\* The files of the directories: unreadable, no JSON, roots that are no
\* object, and objects valid and invalid under either structure.
SAMPLE_FILES ==
    { [kind |-> "unreadable"],
      [kind |-> "not json"],
      [kind |-> "json", data |-> JNull],
      [kind |-> "json", data |-> JList(<<JDict(<< >>)>>)],
      JsonFile(<<"segments">>, <<JList(<< >>)>>),
      JsonFile(<<"voiceline_id", "timestamp", "segments">>,
               <<JStr("123"), JStr("2025"),
                 JList(<<Dict(<<"start", "end", "text", "part">>,
                              <<JInt(0), JFloat("1.5"), JStr("hi"), JInt(1)>>)>>)>>),
      JsonFile(<<"voiceline_id", "timestamp", "segments">>,
               <<JStr("123"), JStr("2025"), JList(<<JInt(7)>>)>>),
      JsonFile(<<"file", "segments">>,
               <<JStr("x.json"),
                 JList(<<Dict(<<"start", "end", "text">>,
                              <<JInt(0), JFloat("1.5"), JStr("hi")>>)>>)>>),
      JsonFile(<<"file", "segments">>, <<JInt(5), JStr("segments")>>) }

\* The names of the files of data_dir matching "*.json".
JSON_FILES == {"a.json", "b.json", "c.json"}

InitValidator ==
    /\ text \in {"directory", "missing"}
    /\ disk \in IF exists(text)
                THEN UNION { [names -> SAMPLE_FILES] : names \in SUBSET JSON_FILES }
                ELSE { << >> }
    /\ orig = disk
    /\ history = << >>
    /\ pc = "idle"
    /\ todo = {}
    /\ all_changes = << >>
    /\ classified = << >>
    /\ writes = {}
    /\ result = "none"

NextValidator ==
    \/ StartValidator
    \/ \E f \in JSON_FILES : ValidateFile(f)
    \/ ReturnValidator
    \/ Exit

SpecValidator == InitValidator /\ [][NextValidator]_vars

\* The files the loop of validate_all_json_files has visited.
Visited == DOMAIN disk \ todo

\* The entries of the error list that name the file.
EntriesOf(f) == { i \in 1..Len(result.errors) : result.errors[i][1] = f }

\* C19: validate_json_file returns a pair of a boolean and a message for
\* every file, be it unreadable, no JSON, or JSON of any root and field
\* types; validate_all_json_files visits every file once, and every visited
\* file is counted once: in valid_files when it is valid, and otherwise as
\* one entry of errors holding its name and message.  When the function has
\* returned every file of the directory has been visited.
C19_CountedOnce ==
    (pc \in {"validating", "returned", "exit 0", "exit 1"} /\ exists(text)) =>
        /\ \A f \in DOMAIN disk :
               /\ validate_json_file(disk[f])[1] \in BOOLEAN
               /\ validate_json_file(disk[f])[2] \in STRING
        /\ Len(history) = Cardinality(Visited)
        /\ { history[i] : i \in 1..Len(history) } = Visited
        /\ result.valid_files = Cardinality({ f \in Visited : validate_json_file(disk[f])[1] })
        /\ result.valid_files + Len(result.errors) = Cardinality(Visited)
        /\ \A f \in Visited :
               IF validate_json_file(disk[f])[1] THEN EntriesOf(f) = {}
               ELSE /\ Cardinality(EntriesOf(f)) = 1
                    /\ \A i \in EntriesOf(f) :
                           result.errors[i] = <<f, validate_json_file(disk[f])[2]>>
        /\ result.total_files = Cardinality(DOMAIN disk)
        /\ pc # "validating" => Visited = DOMAIN disk

\* Three files have been validated and the function has returned: one is
\* unreadable, one is no JSON, one is a valid voiceline.
C19_Witness ==
    /\ pc = "returned"
    /\ exists(text)
    /\ DOMAIN disk = JSON_FILES
    /\ disk["a.json"] = [kind |-> "unreadable"]
    /\ disk["b.json"] = [kind |-> "not json"]
    /\ validate_json_file(disk["c.json"])[1]
    /\ result.total_files = 3
    /\ result.valid_files = 1
    /\ Len(result.errors) = 2

---------------------------------------------------------------------------
(* autoFixWhisperErrors on directories with malformed records *)

\* A segment with the given value under "text".
TextSegment(t) == [start |-> 0, end |-> 1, text |-> t]

\* The contents of the files: one that cannot be decoded, roots that are no
\* object, segments that are no object, texts that are no string (alone, and
\* after a segment the corrector changes), and two well-formed records, one
\* the corrector changes and one it leaves.
MALFORMED_CONTENTS ==
    { Unreadable,
      Json(JSON_NUMBER),
      Json(JSON_NULL),
      Json(JSON_ARRAY),
      Json([file |-> "kill.wav", segments |-> <<JSON_NUMBER>>]),
      Json([file |-> "kill.wav", segments |-> <<JSON_NULL>>]),
      Json([file |-> "kill.wav", segments |-> <<JSON_ARRAY>>]),
      Json([file |-> "kill.wav", segments |-> <<TextSegment(<<"int">>)>>]),
      Json([file |-> "kill.wav",
            segments |-> <<TextSegment(<<"G", "r", "a", "p", "h">>), TextSegment(<<"NoneType">>)>>]) }

WELL_FORMED_CONTENTS ==
    { Json([file |-> "kill.wav", segments |-> <<TextSegment(<<"G", "r", "a", "p", "h">>)>>]),
      Json([file |-> "kill.wav", segments |-> <<TextSegment(<<"A", "r", "g", "h", "!">>)>>]) }

InitMalformed ==
    /\ disk \in [FILES -> MALFORMED_CONTENTS \cup WELL_FORMED_CONTENTS]
    /\ orig = disk
    /\ history = << >>
    /\ pc = "idle"
    /\ todo = {}
    /\ all_changes = << >>
    /\ classified = << >>
    /\ writes = {}
    /\ text = << >>
    /\ result = "none"

NextMalformed ==
    \/ \E dry \in BOOLEAN : StartFix(dry)
    \/ \E f \in FILES : FixFile(f)
    \/ Return

SpecMalformed == InitMalformed /\ [][NextMalformed]_vars

\* The entries of the change log that name the file.
ChangesOf(f) == SelectSeq(all_changes, LAMBDA c : c.file = f)

\* C20: a record that cannot be loaded or is malformed never aborts the
\* batch of autoFixWhisperErrors: the process does not end before the loop
\* has taken every file, the malformed record gets no entry in the change log
\* and is not written, and when the first run is done every other record has
\* the entries the corrector makes for it alone.
C20_NeverAborts ==
    /\ pc # "crashed"
    /\ (pc = "done" /\ Len(history) = 1) =>
          \A f \in DOMAIN disk :
              IF orig[f] \in MALFORMED_CONTENTS
              THEN f \notin writes /\ ChangesOf(f) = << >> /\ disk[f] = orig[f]
              ELSE ChangesOf(f) = autoFix_process_json_file(f, orig[f], dry_run).changes

---------------------------------------------------------------------------
(* The action words *)

\* ACTION_CORRECTIONS: a table the module defines and no function reads.
ACTION_CORRECTIONS ==
    << <<<<"S", "t", "o", "n", "e">>, <<"S", "t", "u", "n">>>>,
       <<<<"S", "t", "a", "n">>, <<"S", "t", "u", "n">>>>,
       <<<<"S", "t", "a", "m", "i", "n", "a">>, <<"S", "t", "u", "n", " ", "M", "i", "n", "a">>>>,
       <<<<"S", "t", "a", "n", "y", "a", "m", "a", "t", "o">>, <<"S", "t", "u", "n", " ", "Y", "a", "m", "a", "t", "o">>>>,
       <<<<"S", "t", "o", "r", "m", "w", "r", "e", "c", "k", "e", "r">>, <<"S", "t", "u", "n", " ", "W", "r", "e", "c", "k", "e", "r">>>>,
       <<<<"S", "t", "o", "n", "e", "w", "r", "a", "i", "t", "h">>, <<"S", "t", "u", "n", " ", "W", "r", "a", "i", "t", "h">>>>,
       <<<<"S", "u", "n", "w", "r", "a", "i", "t", "h">>, <<"S", "t", "u", "n", " ", "W", "r", "a", "i", "t", "h">>>> >>

\* C25: fix_text rewrites every whole-word occurrence of "Stone" and of
\* "Stan", the first two entries of ACTION_CORRECTIONS, to "Stun", whether a
\* name follows or the word stands alone.
C25_ActionWords ==
    Corrected =>
        \A k \in 1..2 :
            HasWord(text, ACTION_CORRECTIONS[k][1]) =>
                /\ ~HasWord(result[1], ACTION_CORRECTIONS[k][1])
                /\ HasWord(result[1], ACTION_CORRECTIONS[k][2])

---------------------------------------------------------------------------
(* The removal rules of PHRASE_CORRECTIONS *)

\* The phrases the removal rules name, each with and without its "!", and
\* runs of question marks.
REMOVAL_PHRASES ==
    { <<"T", "h", "a", "n", "k", " ", "y", "o", "u", " ", "f", "o", "r", " ", "w", "a", "t", "c", "h", "i", "n", "g">>, <<"T", "h", "a", "n", "k", " ", "y", "o", "u", " ", "f", "o", "r", " ", "w", "a", "t", "c", "h", "i", "n", "g", "!">>,
      <<"T", "h", "a", "n", "k", "s", " ", "f", "o", "r", " ", "w", "a", "t", "c", "h", "i", "n", "g">>, <<"T", "h", "a", "n", "k", "s", " ", "f", "o", "r", " ", "w", "a", "t", "c", "h", "i", "n", "g", "!">>,
      <<"P", "l", "e", "a", "s", "e", " ", "s", "u", "b", "s", "c", "r", "i", "b", "e">>, <<"P", "l", "e", "a", "s", "e", " ", "s", "u", "b", "s", "c", "r", "i", "b", "e", "!">>,
      <<"T", "H", "A", "N", "K", "S", " ", "F", "O", "R", " ", "W", "A", "T", "C", "H", "I", "N", "G">>, <<"T", "H", "A", "N", "K", "S", " ", "F", "O", "R", " ", "W", "A", "T", "C", "H", "I", "N", "G", "!">>,
      <<"T", "h", "a", "n", "k", "s", " ", "F", "o", "r", " ", "W", "a", "t", "c", "h", "i", "n", "g">>, <<"T", "h", "a", "n", "k", "s", " ", "F", "o", "r", " ", "W", "a", "t", "c", "h", "i", "n", "g", "!">>,
      <<"T", "h", "a", "n", "k", " ", "Y", "o", "u", " ", "F", "o", "r", " ", "W", "a", "t", "c", "h", "i", "n", "g">>, <<"T", "h", "a", "n", "k", " ", "Y", "o", "u", " ", "F", "o", "r", " ", "W", "a", "t", "c", "h", "i", "n", "g", "!">>,
      <<"?", "?">>, <<"?", "?", "?">> }

\* s without the spaces at its beginning and at its end.
RECURSIVE StripSpaces(_)
StripSpaces(s) ==
    IF s = << >> THEN s
    ELSE IF s[1] = " " THEN StripSpaces(Tail(s))
    ELSE IF s[Len(s)] = " " THEN StripSpaces(SubSeq(s, 1, Len(s) - 1))
    ELSE s

\* C26: fix_text returns the empty string for a text that is, apart from
\* the spaces around it, one of the removal phrases, under any file name;
\* where such a phrase is only a part of a longer text it stays in the text.
C26_WholeSegmentOnly ==
    Corrected =>
        IF StripSpaces(text) \in REMOVAL_PHRASES
        THEN result[1] = << >> /\ fix_text(text, KillFile) = << >>
        ELSE \A p \in REMOVAL_PHRASES : Contains(text, p) => Contains(result[1], p)

---------------------------------------------------------------------------
(* Persistence and the change log of the two scripts, checked under Spec *)

\* A turn of the loop of process_directory takes the file f and returns.
Processed(f) == pc = "running" /\ f \in todo /\ f \notin todo' /\ pc' = "running"

\* The text the running script gives a segment's text t of the file f.
PostText(t, f) ==
    IF script = "autoFixWhisperErrors" THEN fix_text(t, f)
    ELSE IF is_hallucinated(t) = "True" THEN << >>
    ELSE t

\* The segments of a file as the running script leaves them: every text
\* replaced by its PostText, everything else as it was.
PostSegments(content, f) ==
    IF content.kind # "json" THEN << >>
    ELSE [k \in 1..Len(content.data.segments) |->
            IF "text" \in DOMAIN content.data.segments[k]
            THEN [content.data.segments[k] EXCEPT
                    !.text = PostText(content.data.segments[k].text, f)]
            ELSE content.data.segments[k]]

\* The segments of the file whose text differs in post from what the file holds.
ChangedSegments(content, post) ==
    { k \in 1..Len(post) : post[k] # content.data.segments[k] }

\* The entries the change log must gain for the file, one for each changed
\* segment, in the order of the segments.
RECURSIVE ExpectedChanges(_, _, _, _)
ExpectedChanges(f, content, post, k) ==
    IF k > Len(post) THEN << >>
    ELSE (IF post[k] # content.data.segments[k]
          THEN <<[file |-> f, original |-> content.data.segments[k].text,
                  fixed |-> post[k].text]>>
          ELSE << >>)
         \o ExpectedChanges(f, content, post, k + 1)

\* C21: a turn of either script that returns writes the file exactly when the
\* text of at least one of its segments differs from what it was before the
\* turn and the run is one with --apply; what is written is the whole record,
\* every segment with its text as the script leaves it, and no other file
\* changes.  A dry run writes nothing, and its change log still gains one
\* entry for each changed segment.  A turn an exception ends writes nothing.
C21_ConditionalPersistence ==
    [][ /\ \A f \in FILES :
              Processed(f) =>
                  \E post \in {PostSegments(disk[f], f)} :
                      /\ f \in writes' <=> (ChangedSegments(disk[f], post) # {} /\ ~dry_run)
                      /\ f \in writes' =>
                            disk'[f] = [disk[f] EXCEPT !.data.segments = post]
                      /\ f \notin writes' => disk'[f] = disk[f]
                      /\ \A g \in FILES \ {f} : disk'[g] = disk[g] /\ (g \in writes' <=> g \in writes)
                      /\ Len(all_changes') =
                            Len(all_changes) + Cardinality(ChangedSegments(disk[f], post))
        /\ (pc = "running" /\ dry_run) => (disk' = disk /\ writes' = {})
        /\ (pc = "running" /\ pc' = "crashed") => (disk' = disk /\ writes' = writes)
      ]_vars

\* A run of autoFixWhisperErrors with --apply has returned: the pain file was
\* changed and written, the kill file holds a segment and was not written.
C21_Witness ==
    /\ script = "autoFixWhisperErrors"
    /\ pc = "done"
    /\ ~dry_run
    /\ writes = {PainFile}
    /\ disk[PainFile] # orig[PainFile]
    /\ disk[KillFile].kind = "json"
    /\ Len(disk[KillFile].data.segments) = 1
    /\ disk[KillFile] = orig[KillFile]

---------------------------------------------------------------------------
(* The write of process_json_file, step by step *)

\* What process_json_file of the running script computes for the file f.
process_json_file(f) ==
    IF script = "autoFixWhisperErrors"
    THEN autoFix_process_json_file(f, disk[f], dry_run)
    ELSE screams_process_json_file(f, disk[f], dry_run)

\* A file opened with mode 'w' and not yet closed, or left by a write that
\* failed: the beginning of the new document, up to the given number of
\* segments.  json.load raises JSONDecodeError for it.
Truncated(n) == [kind |-> "truncated", segments |-> n]

\* "with open(filepath, 'w', encoding='utf-8') as f": the loop over the
\* segments is over, the record was modified and the run is no dry run.  The
\* file is empty from here on.
Open(f) ==
    /\ pc = "running"
    /\ f \in todo
    /\ \E r \in {process_json_file(f)} :
           /\ r.written
           /\ text' = r
           /\ classified' = classified \o r.seen
    /\ disk' = [disk EXCEPT ![f] = Truncated(0)]
    /\ result' = f
    /\ todo' = todo \ {f}
    /\ pc' = "writing"
    /\ UNCHANGED <<orig, history, all_changes, writes>>

\* "json.dump(data, f, indent=2, ensure_ascii=False)": one more segment of
\* the document reaches the file.
Dump ==
    /\ pc = "writing"
    /\ disk[result].segments < Len(text.content.data.segments)
    /\ disk' = [disk EXCEPT ![result] = Truncated(@.segments + 1)]
    /\ UNCHANGED <<orig, history, pc, todo, all_changes, classified, writes, text, result>>

\* "f.write('\n')", the end of the with block and "return changes".
Close ==
    /\ pc = "writing"
    /\ disk[result].segments = Len(text.content.data.segments)
    /\ disk' = [disk EXCEPT ![result] = text.content]
    /\ writes' = writes \cup {result}
    /\ all_changes' = all_changes \o text.changes
    /\ pc' = "running"
    /\ text' = << >>
    /\ result' = "none"
    /\ UNCHANGED <<orig, history, todo, classified>>

\* A write to the file raises OSError (the disk is full, the file is too
\* large): the exception is caught nowhere and ends the process.
WriteFails ==
    /\ pc = "writing"
    /\ pc' = "crashed"
    /\ UNCHANGED <<disk, orig, history, todo, all_changes, classified, writes, text, result>>

\* The file f is the next of the loop and process_json_file does not write it.
NotWritten(f) == pc = "running" /\ f \in todo /\ ~process_json_file(f).written

\* One invocation of either script, the write of a file taken step by step.
NextWrite ==
    \/ \E dry \in BOOLEAN : history = << >> /\ StartFix(dry)
    \/ \E dry \in BOOLEAN : history = << >> /\ StartScreams(dry)
    \/ \E f \in FILES : script = "autoFixWhisperErrors" /\ NotWritten(f) /\ FixFile(f)
    \/ \E f \in FILES : script = "fixHallucinatedScreams" /\ NotWritten(f) /\ ScreamsFile(f)
    \/ \E f \in FILES : Open(f)
    \/ Dump
    \/ Close
    \/ WriteFails
    \/ Return

SpecWrite == Init /\ [][NextWrite]_vars

\* C22: at every point of a write the file holds the complete content it had
\* or the complete new content, never the beginning of a document only.
C22_AtomicWrite ==
    \A f \in FILES : disk[f].kind # "truncated"

\* A write of the file has failed.
WriteFailed == pc = "crashed" /\ result # "none"

\* C23: a failure of the write of a record is fatal for that record only:
\* the run goes on to the remaining files, and the changes of the record are
\* not in the change log.
C23_WriteFailureLocal ==
    /\ ~WriteFailed
    /\ pc = "writing" => \A i \in 1..Len(all_changes) : all_changes[i].file # result

---------------------------------------------------------------------------
(* The change log *)

\* C24: the change log of process_directory is empty when the run starts;
\* a turn of the loop that returns appends to it, for the file it takes, one
\* entry (file, original, fixed) for each segment whose text changed, in the
\* order of the segments, and nothing for the other segments, so that the
\* entries stand in the order the files were processed; original and fixed
\* differ in every entry; returning leaves the log as it is.
C24_ChangeLog ==
    [][ /\ \A f \in FILES :
              Processed(f) =>
                  \E post \in {PostSegments(disk[f], f)} :
                      all_changes' = all_changes \o ExpectedChanges(f, disk[f], post, 1)
        /\ pc' = "running" /\ pc # "running" => all_changes' = << >>
        /\ pc' = "done" => all_changes' = all_changes
        /\ \A i \in 1..Len(all_changes') : all_changes'[i].original # all_changes'[i].fixed
      ]_vars

\* A run of autoFixWhisperErrors has returned with two entries for the kill
\* file, that of its first segment before that of its second.
C24_Witness ==
    /\ script = "autoFixWhisperErrors"
    /\ pc = "done"
    /\ Len(history) = 1
    /\ Len(all_changes) = 2
    /\ \A i \in 1..2 :
          /\ all_changes[i].file = KillFile
          /\ all_changes[i].original = orig[KillFile].data.segments[i].text
    /\ all_changes[1].original # all_changes[2].original

---------------------------------------------------------------------------
(* Two runs of fixHallucinatedScreams *)

\* No call of is_hallucinated raises in a first run of fixHallucinatedScreams
\* over the directory as it was.
FirstRunReturns ==
    \A f \in FILES :
        (IsCategoryName(f) /\ orig[f].kind = "json") =>
            \A k \in 1..Len(orig[f].data.segments) :
                "text" \in DOMAIN orig[f].data.segments[k] =>
                    is_hallucinated(orig[f].data.segments[k].text) # "re.error"

\* C27: when a run of fixHallucinatedScreams with --apply has returned, a
\* run of it that follows at once, dry or with --apply, enters nothing in its
\* change log, writes no file and returns.  The first run returns exactly
\* when none of its calls of is_hallucinated raises.
C27_RerunNoOp ==
    /\ (Len(history) = 1 /\ OnlyScreams /\ pc \in {"done", "crashed"}) =>
          (pc = "done" <=> FirstRunReturns)
    /\ (Len(history) = 2 /\ OnlyScreams /\ FirstRunReturns) =>
          /\ all_changes = << >>
          /\ writes = {}
          /\ pc # "crashed"

\* A second run has returned after a first one that emptied a text.
C27_Witness ==
    /\ Len(history) = 2
    /\ OnlyScreams
    /\ FirstRunReturns
    /\ pc = "done"
    /\ disk # orig
    /\ all_changes = << >>

===========================================================================
